---- MODULE Spec2Model ----
(***************************************************************************)
(* Model of the AR try-on viewer (src/src/FaceMeshViewer.jsx, the          *)
(* multi-accessory FaceMeshViewer component) and of the accessory picker   *)
(* that drives it (src/src/App.jsx).                                       *)
(*                                                                         *)
(* Numbers.  JavaScript doubles are modelled in fixed point:               *)
(*   - normalized coordinates, world coordinates and scales in 1/1000      *)
(*     (Milli); pixel coordinates in 1/10 pixel (PxUnit);                  *)
(*   - angles in 1/1000 radian;                                            *)
(*   - every division truncates (\div), which stands for the rounding of   *)
(*     the floating-point operation.                                       *)
(* Values that JavaScript leaves undefined/null are records with a single  *)
(* tag field, so that every variable keeps one shape of value.             *)
(***************************************************************************)
EXTENDS Integers, Sequences, FiniteSets, TLC

VARIABLES
  selectedAccessory,      \* App: useState selectedAccessory (catalog index)
  activeCategory,         \* App: useState activeCategory
  isAccessoryLoaded,      \* App: useState isAccessoryLoaded
  isModelLoaded,          \* App: useState isModelLoaded
  status,                 \* App: useState status
  currentAccessoryRef,    \* viewer: currentAccessoryRef.current (catalog index, 0 = null)
  isSceneReady,           \* viewer: useState isSceneReady
  sceneRef,               \* viewer: sceneRef.current is set
  rendererState,          \* viewer: rendererRef.current: "none" | "live" | "disposed"
  sceneObjs,              \* accessory object ids that are children of the scene
  objs,                   \* accessory object id -> its mesh state
  accessoryRef,           \* viewer: accessoryRef.current (object id, 0 = null)
  accessoryInstancesRef,  \* viewer: accessoryInstancesRef.current (sequence of object ids)
  faceOccluderRef,        \* viewer: faceOccluderRef.current (occluder mesh or null)
  loads,                  \* the loadAccessoryModel calls started so far, in order
  lastTShirtAlignment,    \* module-level let lastTShirtAlignment
  running,                \* main effect: let running
  initPc,                 \* position of initAll: the await it is suspended at, or "done" | "failed"
  stream,                 \* the MediaStream of getUserMedia: "none" | "live" | "stopped"
  srcObject,              \* video.srcObject holds the stream
  holisticRef,            \* holisticRef.current: "none" | "open" | "closed"
  cameraUtilRef,          \* cameraUtilRef.current: "none" | "started" | "stopped"
  fallbackPc,             \* position of fallbackLoop: "none" | "scheduled" | "sending" | "ended"
  renderPc,               \* position of renderLoop: "none" | "scheduled" | "cancelled" | "ended"
  nRenders,               \* number of frames renderLoop has drawn so far
  lastResults,            \* the detection result handed to the last onHolisticResults call
  lastAlignment,          \* the local `alignment` of the last onHolisticResults call
  lastOutcome,            \* the last onHolisticResults call: "none" | "ignored" | "returned" | "threw"
  afterTeardown,          \* the outputs (render, detector send) performed since teardown
  nFrames,                \* number of detection results delivered so far
  shirtPlaced,            \* history: a Shirt placement was computed since the selection last changed
  glassesViewer,          \* the glasses-only FaceMeshViewer: its refs, state and loop position
  agent,                  \* GeminiAgentController: its state, refs, timers and pending calls
  call,                   \* the pure call under test (strategy or occluder build)
  ret                     \* its outcome

vars == << selectedAccessory, activeCategory, isAccessoryLoaded, isModelLoaded,
           status, currentAccessoryRef, isSceneReady, sceneRef, rendererState,
           sceneObjs, objs, accessoryRef, accessoryInstancesRef, faceOccluderRef,
           loads, lastTShirtAlignment, running, initPc,
           stream, srcObject, holisticRef, cameraUtilRef, fallbackPc, renderPc, nRenders,
           lastResults, lastAlignment, lastOutcome, afterTeardown, nFrames,
           shirtPlaced, glassesViewer, agent, call, ret >>

---------------------------------------------------------------------------
(* Bounds of the model *)

\* accessory clicks are drawn from the first MaxPerCategory items of each category
MaxPerCategory == 1
\* at most MaxLoads calls of loadAccessoryModel are started
MaxLoads == 2
\* at most MaxFrames detection results are delivered
MaxFrames == 2
\* at most MaxSelections selections are made while the models are still loading
MaxSelections == 3
\* at most MaxTurns turns of detectLoop run to their end
MaxTurns == 3
\* at most MaxRenders frames are drawn by renderLoop
MaxRenders == 3
\* at most MaxSessions recordings are started
MaxSessions == 2
\* at most MaxCapturing captureScreen calls are pending at a time
MaxCapturing == 2

---------------------------------------------------------------------------
(* Program constants *)

VIDEO_WIDTH == 720
VIDEO_HEIGHT == 620

\* fixed-point units
Milli == 1000
PxUnit == 10

\* Math.PI in 1/1000 radian
PI == 3142

GLASSES == "glasses"
EARRINGS == "earrings"
NECKLACE == "necklace"
T_SHIRT == "t-shirt"

ACCESSORY_TYPES == {GLASSES, EARRINGS, NECKLACE, T_SHIRT}

\* SMOOTHING factors, in 1/10
SMOOTHING == [position |-> 3, scale |-> 3, rotation |-> 4]
SmoothUnit == 10

LANDMARK_INDICES == [leftEyeCenter |-> 159, rightEyeCenter |-> 386, noseTip |-> 1]

\* the ear-region clusters averaged by the Earrings strategy
LeftEarCluster == <<234, 93, 132, 127>>
RightEarCluster == <<454, 323, 361, 356>>

\* number of face landmarks the occluder needs
FACE_LANDMARK_COUNT == 468

\* length of the flattened FACEMESH_TRIANGULATION table (880 triangles)
TRIANGULATION_INDEX_COUNT == 2640

---------------------------------------------------------------------------
(* JavaScript values *)

Null == [null |-> TRUE]
Undefined == [undefined |-> TRUE]

IsNull(v) == "null" \in DOMAIN v
IsUndefined(v) == "undefined" \in DOMAIN v
\* JavaScript truthiness of an object-or-null/undefined value
Truthy(v) == ~IsNull(v) /\ ~IsUndefined(v)

Point(px, py, pz) == [x |-> px, y |-> py, z |-> pz]

---------------------------------------------------------------------------
(* Arithmetic *)

Max(a, b) == IF a >= b THEN a ELSE b
Min(a, b) == IF a <= b THEN a ELSE b
Abs(a) == IF a >= 0 THEN a ELSE -a

\* Math.sqrt on non-negative fixed-point values (rounded down)
RECURSIVE SqrtIter(_, _, _)
SqrtIter(n, lo, hi) ==
  IF lo >= hi THEN lo
  ELSE LET mid == (lo + hi + 1) \div 2
       IN IF mid * mid <= n THEN SqrtIter(n, mid, hi) ELSE SqrtIter(n, lo, mid - 1)

Sqrt(n) == SqrtIter(n, 0, 46340)

\* arctangent of a ratio r/1000 in [0, 1], in 1/1000 radian
AtanUnit(r) == (r * (785 + (273 * (Milli - r)) \div Milli)) \div Milli

\* arctangent of y/x for x, y >= 0, not both 0
AtanPos(y, x) ==
  IF y <= x THEN AtanUnit((y * Milli) \div x)
  ELSE PI \div 2 - AtanUnit((x * Milli) \div y)

\* Math.atan2 with its arguments exchanged
Atan2Swapped(y, x) ==
  IF x = 0 /\ y = 0 THEN 0
  ELSE IF y >= 0 /\ x >= 0 THEN AtanPos(x, y)
  ELSE IF y < 0 /\ x >= 0 THEN PI - AtanPos(x, -y)
  ELSE IF y < 0 THEN -(PI - AtanPos(-x, -y))
  ELSE -AtanPos(-x, y)

\* Math.atan2(y, x), in 1/1000 radian
Atan2(y, x) ==
  IF x = 0 /\ y = 0 THEN 0
  ELSE IF x >= 0 /\ y >= 0 THEN AtanPos(y, x)
  ELSE IF x < 0 /\ y >= 0 THEN PI - AtanPos(y, -x)
  ELSE IF x < 0 THEN -(PI - AtanPos(-y, -x))
  ELSE -AtanPos(-y, x)

\* the JavaScript % operator: the result takes the sign of the dividend
JsMod(a, m) == IF a >= 0 THEN a % m ELSE -((-a) % m)

\* THREE.MathUtils.lerp(x, y, t) = (1 - t) * x + t * y, t in 1/10
Lerp(x, y, t) == ((SmoothUnit - t) * x + t * y) \div SmoothUnit

\* interpolation along b - a itself, without wrapping
lerpAngleDirect(a, b, t) == a + ((b - a) * t) \div SmoothUnit

lerpShortestAngle(a, b, t) ==
  LET diff == JsMod(b - a, 2 * PI)
      shortestDiff == JsMod(2 * diff, 2 * PI) - diff
  IN a + (shortestDiff * t) \div SmoothUnit

---------------------------------------------------------------------------
(* Landmark arrays.  An array is [len, pt]: its length and the landmarks   *)
(* it holds at the indices the viewer reads (pt[i] is absent when the      *)
(* array has no element i).                                                *)

FaceKeys == {1, 159, 386, 234, 93, 132, 127, 454, 323, 361, 356}
PoseKeys == {11, 12, 23, 24}

\* landmarks[i]
At(landmarks, i) ==
  IF i \in DOMAIN landmarks.pt THEN landmarks.pt[i] ELSE Undefined

\* array.length is 0 / array is null or undefined
IsArray(landmarks) == "len" \in DOMAIN landmarks

convertFaceLandmarksToPixelPoints(faceLandmarks) ==
  IF ~IsArray(faceLandmarks) \/ faceLandmarks.len = 0 THEN Null
  ELSE [len |-> faceLandmarks.len,
        pt |-> [i \in DOMAIN faceLandmarks.pt |->
                 LET lm == faceLandmarks.pt[i]
                 IN Point((lm.x * VIDEO_WIDTH * PxUnit) \div Milli,
                          (lm.y * VIDEO_HEIGHT * PxUnit) \div Milli,
                          (lm.z * VIDEO_WIDTH * PxUnit) \div Milli)]]

convertPoseLandmarksToPixelPoints(poseLandmarks) ==
  IF ~IsArray(poseLandmarks) \/ poseLandmarks.len = 0 THEN Null
  ELSE [len |-> poseLandmarks.len,
        pt |-> [i \in DOMAIN poseLandmarks.pt |->
                 LET lm == poseLandmarks.pt[i]
                 IN Point((lm.x * VIDEO_WIDTH * PxUnit) \div Milli,
                          (lm.y * VIDEO_HEIGHT * PxUnit) \div Milli,
                          (lm.z * VIDEO_WIDTH * PxUnit) \div Milli)]]

---------------------------------------------------------------------------
(* Coordinate mapper.  The camera is the one initThreeJS creates:          *)
(* PerspectiveCamera(50, VIDEO_WIDTH / VIDEO_HEIGHT, 0.01, 100) at         *)
(* (0, 0, 1) looking at the origin.                                        *)

CameraPosition == Point(0, 0, Milli)
\* tan(50 degrees / 2), in 1/1000
TanHalfFov == 466

\* the ray direction with the aspect ratio of the camera left out
RayDirectionNoAspect(ndcX, ndcY) ==
  [x |-> (ndcX * TanHalfFov) \div Milli, y |-> (ndcY * TanHalfFov) \div Milli,
   z |-> -Milli]

\* ndc.unproject(cam).sub(cam.position): the direction of the ray through
\* the screen point, scaled so that its z component is -1
RayDirection(ndcX, ndcY) ==
  Point((ndcX * ((TanHalfFov * VIDEO_WIDTH) \div VIDEO_HEIGHT)) \div Milli,
        (ndcY * TanHalfFov) \div Milli,
        -Milli)

\* the value that stands for NaN in a coordinate; no arithmetic is applied to it
NaN == -2147483647

\* the magnitude that stands for coordinates whose square exceeds the largest
\* double: normalize() then divides by Infinity and leaves dir = (0, 0, -0)
OverflowMagnitude == 2000000000

NonFinite(x) == x = NaN \/ x >= OverflowMagnitude \/ x <= -OverflowMagnitude

\* A NaN coordinate makes every product NaN.  With dir.z = -0 the quotient
\* t = (planeZ - cam.z) / dir.z is +Infinity and dir * t is (NaN, NaN, NaN):
\* nothing tests dir.z or the result.
uvToWorld(u, v, planeZ) ==
  IF NonFinite(u) \/ NonFinite(v)
  THEN Point(NaN, NaN, NaN)
  ELSE
  LET cam == CameraPosition
      dir == RayDirection(u * 2 - Milli, Milli - v * 2)
      t == ((planeZ - cam.z) * Milli) \div dir.z
  IN Point(cam.x + (dir.x * t) \div Milli,
           cam.y + (dir.y * t) \div Milli,
           cam.z + (dir.z * t) \div Milli)

---------------------------------------------------------------------------
(* Alignment strategies.  A strategy call yields [raised, value, last]:    *)
(* whether it threw, the placement it returned, and the value it leaves in *)
(* lastTShirtAlignment.  Reading landmarks[i] of null or undefined throws. *)

Raised(last) == [raised |-> TRUE, value |-> Undefined, last |-> last]
Returned(value, last) == [raised |-> FALSE, value |-> value, last |-> last]

NotVisible == [visible |-> FALSE]

GlassesStrategy(landmarks, last) ==
  IF ~IsArray(landmarks) THEN Raised(last)
  ELSE
  LET leftEye == At(landmarks, LANDMARK_INDICES.leftEyeCenter)
      rightEye == At(landmarks, LANDMARK_INDICES.rightEyeCenter)
      noseTip == At(landmarks, LANDMARK_INDICES.noseTip)
  IN IF ~Truthy(leftEye) \/ ~Truthy(rightEye) \/ ~Truthy(noseTip)
     THEN Returned(NotVisible, last)
     ELSE
     LET glassesCenter ==
           Point((leftEye.x + rightEye.x) \div 2,
                 (leftEye.y + rightEye.y) \div 2 + (VIDEO_HEIGHT * PxUnit) \div 100,
                 (leftEye.z + rightEye.z) \div 2 - (5 * VIDEO_WIDTH * PxUnit) \div 100)
         normalizedCenter ==
           Point((glassesCenter.x * Milli) \div (VIDEO_WIDTH * PxUnit),
                 (glassesCenter.y * Milli) \div (VIDEO_HEIGHT * PxUnit) - 20,
                 (glassesCenter.z * Milli) \div (VIDEO_WIDTH * PxUnit))
         targetZ == -100
         world == uvToWorld(normalizedCenter.x, normalizedCenter.y, targetZ)
         eyeDistancePixels ==
           Sqrt((rightEye.x - leftEye.x) * (rightEye.x - leftEye.x)
                + (rightEye.y - leftEye.y) * (rightEye.y - leftEye.y)
                + (rightEye.z - leftEye.z) * (rightEye.z - leftEye.z))
         eyeDistanceNormalized == (eyeDistancePixels * Milli) \div (VIDEO_WIDTH * PxUnit)
         scale == Max(500, Min(4000, eyeDistanceNormalized * 20))
         eyeVector == [x |-> rightEye.x - leftEye.x, y |-> rightEye.y - leftEye.y]
         roll == -Atan2(eyeVector.y, eyeVector.x)
         eyeMidpoint == [x |-> (leftEye.x + rightEye.x) \div 2,
                         y |-> (leftEye.y + rightEye.y) \div 2]
         noseOffsetX == noseTip.x - eyeMidpoint.x
         yaw == (Atan2(noseOffsetX, eyeDistancePixels) * 8) \div 10
         noseOffsetY == noseTip.y - eyeMidpoint.y
         pitch == Atan2(noseOffsetY, (eyeDistancePixels * 8) \div 10) - 800
     IN Returned([position |-> world,
                  rotation |-> [pitch |-> pitch, yaw |-> yaw, roll |-> roll],
                  scale |-> scale,
                  visible |-> TRUE], last)

\* averagePoints of the Earrings strategy: the mean of the cluster's landmarks
\* that are present, null when none is
averagePoints(landmarks, indices) ==
  LET present == {k \in 1..Len(indices) : Truthy(At(landmarks, indices[k]))}
      n == Cardinality(present)
      SumOf[f \in {"x", "y", "z"}] ==
        LET RECURSIVE Acc(_)
            Acc(k) == IF k = 0 THEN 0
                      ELSE Acc(k - 1) + (IF k \in present THEN At(landmarks, indices[k])[f] ELSE 0)
        IN Acc(Len(indices))
  IN IF n = 0 THEN Null
     ELSE Point(SumOf["x"] \div n, SumOf["y"] \div n, SumOf["z"] \div n)

EarringsStrategy(landmarks, last) ==
  IF ~IsArray(landmarks) THEN Raised(last)
  ELSE
  LET leftEarLobe == averagePoints(landmarks, LeftEarCluster)
      rightEarLobe == averagePoints(landmarks, RightEarCluster)
      leftEyeCenter == At(landmarks, LANDMARK_INDICES.leftEyeCenter)
      rightEyeCenter == At(landmarks, LANDMARK_INDICES.rightEyeCenter)
  IN IF ~Truthy(leftEarLobe) \/ ~Truthy(rightEarLobe)
        \/ ~Truthy(leftEyeCenter) \/ ~Truthy(rightEyeCenter)
     THEN Returned(NotVisible, last)
     ELSE
     LET leftEarringPos ==
           Point((leftEarLobe.x * Milli) \div (VIDEO_WIDTH * PxUnit) - 9,
                 (leftEarLobe.y * Milli) \div (VIDEO_HEIGHT * PxUnit) + 40,
                 (leftEarLobe.z * Milli) \div (VIDEO_WIDTH * PxUnit))
         rightEarringPos ==
           Point((rightEarLobe.x * Milli) \div (VIDEO_WIDTH * PxUnit) + 9,
                 (rightEarLobe.y * Milli) \div (VIDEO_HEIGHT * PxUnit) + 40,
                 (rightEarLobe.z * Milli) \div (VIDEO_WIDTH * PxUnit))
         leftWorld == uvToWorld(leftEarringPos.x, leftEarringPos.y, -250)
         rightWorld == uvToWorld(rightEarringPos.x, rightEarringPos.y, -250)
         eyeDistance ==
           Sqrt((rightEyeCenter.x - leftEyeCenter.x) * (rightEyeCenter.x - leftEyeCenter.x)
                + (rightEyeCenter.y - leftEyeCenter.y) * (rightEyeCenter.y - leftEyeCenter.y))
         scale == Max(300, Min(3000, ((eyeDistance * Milli) \div (VIDEO_WIDTH * PxUnit)) * 12))
         eyeVector == [x |-> rightEyeCenter.x - leftEyeCenter.x,
                       y |-> rightEyeCenter.y - leftEyeCenter.y]
         roll == -Atan2(eyeVector.y, eyeVector.x)
     IN Returned([positions |-> <<leftWorld, rightWorld>>,
                  rotation |-> [pitch |-> 0, yaw |-> 0, roll |-> roll],
                  scale |-> scale,
                  visible |-> TRUE,
                  isMultiple |-> TRUE], last)

\* the Necklace placement with the scale left unclamped
NecklacePlacementUnclamped(leftShoulder, rightShoulder) ==
  LET centerX == (leftShoulder.x + rightShoulder.x) \div 2
      centerY == (leftShoulder.y + rightShoulder.y) \div 2 - 60
      centerZ == (leftShoulder.z + rightShoulder.z) \div 2
      shoulderDist ==
        Sqrt((rightShoulder.x - leftShoulder.x) * (rightShoulder.x - leftShoulder.x)
             + (rightShoulder.y - leftShoulder.y) * (rightShoulder.y - leftShoulder.y))
  IN [position |-> uvToWorld(centerX, centerY, centerZ),
      rotation |-> [pitch |-> 0, yaw |-> 0, roll |-> 0],
      scale |-> shoulderDist * 6,
      visible |-> TRUE]

\* the placement the Necklace strategy computes from the two shoulders
NecklacePlacement(leftShoulder, rightShoulder) ==
  LET centerX == (leftShoulder.x + rightShoulder.x) \div 2
      centerY == (leftShoulder.y + rightShoulder.y) \div 2 - 60
      centerZ == (leftShoulder.z + rightShoulder.z) \div 2
      world == uvToWorld(centerX, centerY, centerZ)
      shoulderDist ==
        Sqrt((rightShoulder.x - leftShoulder.x) * (rightShoulder.x - leftShoulder.x)
             + (rightShoulder.y - leftShoulder.y) * (rightShoulder.y - leftShoulder.y))
      scale == Max(100, Min(4000, shoulderDist * 6))
  IN [position |-> world,
      rotation |-> [pitch |-> 0, yaw |-> 0, roll |-> 0],
      scale |-> scale,
      visible |-> TRUE]

\* the Necklace strategy without the test of rightShoulder: reading
\* rightShoulder.x of undefined throws
NecklaceStrategyLeftOnly(landmarks, last) ==
  IF ~IsArray(landmarks) THEN Raised(last)
  ELSE
  LET leftShoulder == At(landmarks, 11)
      rightShoulder == At(landmarks, 12)
  IN IF ~Truthy(leftShoulder) THEN Returned(NotVisible, last)
     ELSE IF ~Truthy(rightShoulder) THEN Raised(last)
     ELSE Returned(NecklacePlacement(leftShoulder, rightShoulder), last)

NecklaceStrategy(landmarks, last) ==
  IF ~IsArray(landmarks) THEN Raised(last)
  ELSE
  LET leftShoulder == At(landmarks, 11)
      rightShoulder == At(landmarks, 12)
  IN IF ~Truthy(leftShoulder) \/ ~Truthy(rightShoulder)
     THEN Returned(NotVisible, last)
     ELSE Returned(NecklacePlacement(leftShoulder, rightShoulder), last)

\* the placement the Shirt strategy computes from the landmarks of one frame
TShirtCandidate(leftShoulder, rightShoulder, leftHip, rightHip) ==
  LET shoulderVec == Point(rightShoulder.x - leftShoulder.x,
                           rightShoulder.y - leftShoulder.y,
                           rightShoulder.z - leftShoulder.z)
      shoulderCenter == Point((leftShoulder.x + rightShoulder.x) \div 2,
                              (leftShoulder.y + rightShoulder.y) \div 2,
                              (leftShoulder.z + rightShoulder.z) \div 2)
      hipCenter == Point((leftHip.x + rightHip.x) \div 2,
                         (leftHip.y + rightHip.y) \div 2,
                         (leftHip.z + rightHip.z) \div 2)
      torsoCenter ==
        Point((shoulderCenter.x + hipCenter.x) \div 2,
              shoulderCenter.y + ((hipCenter.y - shoulderCenter.y) * 2) \div 10,
              (shoulderCenter.z + hipCenter.z) \div 2 - 100)
      world == uvToWorld(torsoCenter.x, torsoCenter.y, torsoCenter.z)
      shoulderDist ==
        Sqrt((rightShoulder.x - leftShoulder.x) * (rightShoulder.x - leftShoulder.x)
             + (rightShoulder.y - leftShoulder.y) * (rightShoulder.y - leftShoulder.y))
      torsoHeight == Abs(shoulderCenter.y - hipCenter.y)
      scale == Max(shoulderDist * 4, (torsoHeight * 18) \div 10)
      shoulderAngle == Atan2(shoulderVec.z, shoulderVec.x)
      targetYaw == shoulderAngle + PI
  IN [position |-> world,
      rotation |-> [pitch |-> 0, yaw |-> targetYaw, roll |-> 0],
      scale |-> scale,
      visible |-> TRUE]

\* the smoothing of the Shirt strategy: the candidate blended with the
\* remembered placement, when there is one
\* the smoothing step with the factors applied to the sum of the two
\* placements instead of their difference
SmoothedAdditive(last, candidate) ==
  IF Truthy(last)
  THEN [position |->
          Point(last.position.x + (candidate.position.x * SMOOTHING.position) \div SmoothUnit,
                last.position.y + (candidate.position.y * SMOOTHING.position) \div SmoothUnit,
                last.position.z + (candidate.position.z * SMOOTHING.position) \div SmoothUnit),
        rotation |-> [pitch |-> 0,
                      yaw |-> last.rotation.yaw
                                + (candidate.rotation.yaw * SMOOTHING.rotation) \div SmoothUnit,
                      roll |-> 0],
        scale |-> last.scale + (candidate.scale * SMOOTHING.scale) \div SmoothUnit,
        visible |-> TRUE]
  ELSE candidate

Smoothed(last, candidate) ==
  IF Truthy(last)
  THEN [position |->
          Point(Lerp(last.position.x, candidate.position.x, SMOOTHING.position),
                Lerp(last.position.y, candidate.position.y, SMOOTHING.position),
                Lerp(last.position.z, candidate.position.z, SMOOTHING.position)),
        rotation |->
          [pitch |-> 0,
           yaw |-> lerpShortestAngle(last.rotation.yaw, candidate.rotation.yaw,
                                     SMOOTHING.rotation),
           roll |-> 0],
        scale |-> Lerp(last.scale, candidate.scale, SMOOTHING.scale),
        visible |-> TRUE]
  ELSE candidate

\* lastTShirtAlignment = { ...alignment }; return alignment
Remembered(alignment) == Returned(alignment, alignment)

\* the Shirt strategy testing the shoulders only: reading leftHip.x of
\* undefined throws
TShirtStrategyNoHipCheck(landmarks, last) ==
  IF ~IsArray(landmarks) THEN Raised(last)
  ELSE IF ~Truthy(At(landmarks, 11)) \/ ~Truthy(At(landmarks, 12))
  THEN Returned(NotVisible, last)
  ELSE IF ~Truthy(At(landmarks, 23)) \/ ~Truthy(At(landmarks, 24))
  THEN Raised(last)
  ELSE Remembered(Smoothed(last, TShirtCandidate(At(landmarks, 11), At(landmarks, 12),
                                                 At(landmarks, 23), At(landmarks, 24))))

TShirtStrategy(landmarks, last) ==
  IF ~IsArray(landmarks) THEN Raised(last)
  ELSE IF \/ ~Truthy(At(landmarks, 11)) \/ ~Truthy(At(landmarks, 12))
          \/ ~Truthy(At(landmarks, 23)) \/ ~Truthy(At(landmarks, 24))
  THEN Returned(NotVisible, last)
  ELSE Remembered(Smoothed(last, TShirtCandidate(At(landmarks, 11), At(landmarks, 12),
                                                 At(landmarks, 23), At(landmarks, 24))))

\* AccessoryAlignmentStrategies[type](landmarks, uvToWorld)
AccessoryAlignmentStrategies(type, landmarks, last) ==
  CASE type = GLASSES -> GlassesStrategy(landmarks, last)
    [] type = EARRINGS -> EarringsStrategy(landmarks, last)
    [] type = NECKLACE -> NecklaceStrategy(landmarks, last)
    [] type = T_SHIRT -> TShirtStrategy(landmarks, last)

---------------------------------------------------------------------------
(* Accessory catalog (App.jsx) *)

ACCESSORIES == <<
  [id |-> "aviator", name |-> "Aviator", type |-> GLASSES, category |-> "Glasses"],
  [id |-> "stylish", name |-> "Stylish", type |-> GLASSES, category |-> "Glasses"],
  [id |-> "round", name |-> "Round", type |-> GLASSES, category |-> "Glasses"],
  [id |-> "sapphire", name |-> "Sapphire", type |-> EARRINGS, category |-> "Earrings"],
  [id |-> "golden", name |-> "Golden", type |-> EARRINGS, category |-> "Earrings"],
  [id |-> "louboutin", name |-> "Louboutin ", type |-> EARRINGS, category |-> "Earrings"],
  [id |-> "amesthys", name |-> "Amesthys  ", type |-> EARRINGS, category |-> "Earrings"],
  [id |-> "jhumka", name |-> "Jhumka  ", type |-> EARRINGS, category |-> "Earrings"],
  [id |-> "pearl-necklace", name |-> "Pearls", type |-> NECKLACE, category |-> "Necklaces"],
  [id |-> "elegant-jewel", name |-> "Elegant Jewel", type |-> NECKLACE, category |-> "Necklaces"],
  [id |-> "orbit-pendant", name |-> "Orbit Pendant", type |-> NECKLACE, category |-> "Necklaces"],
  [id |-> "classic-tshirt", name |-> "Classic Tee", type |-> T_SHIRT, category |-> "T-Shirts"] >>

\* accessories are referred to by their index in ACCESSORIES; 0 stands for null
AccessoryIds == 1..Len(ACCESSORIES)

\* ACCESSORIES[2]: the default selection (Round glasses)
DefaultAccessory == 3

\* Object.keys(accessoriesByCategory)
categories == <<"Glasses", "Earrings", "Necklaces", "T-Shirts">>

\* accessoriesByCategory[category]: the catalog indices of the category, in catalog order
accessoriesByCategory(category) ==
  LET RECURSIVE Collect(_)
      Collect(k) ==
        IF k = 0 THEN <<>>
        ELSE IF ACCESSORIES[k].category = category
             THEN Append(Collect(k - 1), k)
             ELSE Collect(k - 1)
  IN Collect(Len(ACCESSORIES))

TypeOf(accessory) == ACCESSORIES[accessory].type

---------------------------------------------------------------------------
(* Scene objects.  The objects of the k-th loadAccessoryModel call have    *)
(* the ids 2k-1 and 2k; id 0 stands for null.                              *)

ObjId(load, i) == 2 * (load - 1) + i
LoadOf(id) == (id + 1) \div 2

Vec(px, py, pz) == [x |-> px, y |-> py, z |-> pz]

\* a mesh after setupAccessoryMesh
SetupMesh(load) ==
  [load |-> load, kind |-> "model", visible |-> FALSE,
   position |-> Vec(0, 0, 0), rotation |-> Vec(0, 0, 0), scale |-> 100,
   disposed |-> FALSE]

\* a placeholder cube of createFallbackModel
FallbackCube(load, px) ==
  [load |-> load, kind |-> "cube", visible |-> TRUE,
   position |-> Vec(px, 0, -300), rotation |-> Vec(0, 0, 0), scale |-> Milli,
   disposed |-> FALSE]

\* the function f extended or overridden by g
Override(f, g) ==
  [k \in (DOMAIN f) \cup (DOMAIN g) |-> IF k \in DOMAIN g THEN g[k] ELSE f[k]]

\* the elements of a sequence
Range(seq) == {seq[k] : k \in 1..Len(seq)}

\* object states are kept for the objects a ref or the scene still reaches
Reachable(scene, ref, instances) ==
  scene \cup Range(instances) \cup (IF ref = 0 THEN {} ELSE {ref})

Restrict(f, keep) == [k \in (DOMAIN f) \cap keep |-> f[k]]

\* cleanupAccessories(): [scene objects, accessoryRef, accessoryInstancesRef] afterwards
cleanupAccessories(scene, hasScene, ref, instances) ==
  LET scene1 == IF ref # 0 /\ hasScene THEN scene \ {ref} ELSE scene
      ref1 == IF ref # 0 /\ hasScene THEN 0 ELSE ref
      scene2 == IF Len(instances) > 0 /\ hasScene THEN scene1 \ Range(instances) ELSE scene1
      instances2 == IF Len(instances) > 0 THEN <<>> ELSE instances
  IN [scene |-> scene2, ref |-> ref1, instances |-> instances2]

---------------------------------------------------------------------------
(* Occlusion mesh builder *)

\* the occluder mesh of createFaceOccluder
NewOccluder == [visible |-> FALSE, vertices |-> 0, indices |-> 0, disposed |-> FALSE]

\* an array element the loop of the builder reads is missing (lm is undefined)
HasHole(points, keys) == \E i \in keys : i < points.len /\ i \notin DOMAIN points.pt

\* the builder with the length test off by one (<= for <)
updateFaceOccluderOffByOne(occluder, facePoints) ==
  IF ~Truthy(occluder) \/ ~Truthy(facePoints) \/ facePoints.len <= FACE_LANDMARK_COUNT
  THEN IF Truthy(occluder) THEN [occluder EXCEPT !.visible = FALSE] ELSE occluder
  ELSE IF HasHole(facePoints, FaceKeys)
       THEN [occluder EXCEPT !.visible = FALSE]
       ELSE [occluder EXCEPT !.vertices = 3 * facePoints.len,
                             !.indices = TRIANGULATION_INDEX_COUNT,
                             !.visible = TRUE]

\* updateFaceOccluderFromFaceLandmarks(facePoints): the occluder afterwards
updateFaceOccluderFromFaceLandmarks(occluder, facePoints) ==
  IF ~Truthy(occluder) \/ ~Truthy(facePoints) \/ facePoints.len < FACE_LANDMARK_COUNT
  THEN IF Truthy(occluder) THEN [occluder EXCEPT !.visible = FALSE] ELSE occluder
  ELSE IF HasHole(facePoints, FaceKeys)
       THEN [occluder EXCEPT !.visible = FALSE]
       ELSE [occluder EXCEPT !.vertices = 3 * facePoints.len,
                             !.indices = TRIANGULATION_INDEX_COUNT,
                             !.visible = TRUE]

---------------------------------------------------------------------------
(* Applying a placement to the scene objects *)

IsMultiple(alignment) == "isMultiple" \in DOMAIN alignment /\ alignment.isMultiple

\* Math.max(0.1, Math.min(4.0, scale))
\* the scale applied as the strategy returned it
ClampScaleNone(scale) == scale

ClampScale(scale) == Max(100, Min(4000, scale))

Placed(obj, pos, alignment) ==
  [obj EXCEPT !.visible = TRUE,
              !.position = Vec(pos.x, pos.y, pos.z),
              !.rotation = Vec(alignment.rotation.pitch, alignment.rotation.yaw,
                               alignment.rotation.roll),
              !.scale = ClampScale(alignment.scale)]

\* hideAllAccessories(): the object states afterwards
hideAllAccessories(o, ref, instances) ==
  [id \in DOMAIN o |->
     IF id = ref \/ id \in Range(instances) THEN [o[id] EXCEPT !.visible = FALSE] ELSE o[id]]

\* updateAccessoryAlignment(alignment): [objs, raised, render] afterwards
updateAccessoryAlignment(alignment, o, ref, instances, canRender) ==
  IF ~Truthy(alignment) \/ ~alignment.visible
  THEN [objs |-> hideAllAccessories(o, ref, instances), raised |-> FALSE, render |-> FALSE]
  ELSE IF IsMultiple(alignment) /\ Len(instances) > 0
  THEN [objs |-> [id \in DOMAIN o |->
                    IF \E k \in 1..Len(alignment.positions) :
                         k <= Len(instances) /\ instances[k] = id
                    THEN LET k == CHOOSE j \in 1..Len(alignment.positions) :
                                    j <= Len(instances) /\ instances[j] = id
                         IN Placed(o[id], alignment.positions[k], alignment)
                    ELSE o[id]],
        raised |-> FALSE, render |-> canRender]
  ELSE IF ref # 0
  THEN IF "position" \in DOMAIN alignment
       THEN [objs |-> [o EXCEPT ![ref] = Placed(o[ref], alignment.position, alignment)],
             raised |-> FALSE, render |-> canRender]
       ELSE \* position is undefined: position.x throws after visible was set
            [objs |-> [o EXCEPT ![ref].visible = TRUE], raised |-> TRUE, render |-> FALSE]
  ELSE [objs |-> o, raised |-> FALSE, render |-> canRender]

---------------------------------------------------------------------------
(* Detection results *)

\* a face of the test set: normalized landmark i, in 1/1000
FacePoint1(i) ==
  CASE i = 159 -> Point(400, 400, 0)
    [] i = 386 -> Point(600, 400, 0)
    [] i = 1   -> Point(500, 500, -50)
    [] i = 234 -> Point(250, 450, 100)
    [] i = 93  -> Point(250, 500, 100)
    [] i = 132 -> Point(260, 550, 100)
    [] i = 127 -> Point(250, 400, 100)
    [] i = 454 -> Point(750, 450, 100)
    [] i = 323 -> Point(750, 500, 100)
    [] i = 361 -> Point(740, 550, 100)
    [] i = 356 -> Point(750, 400, 100)

\* the same face farther away, tilted and turned
FacePoint2(i) ==
  LET p == FacePoint1(i)
  IN Point(500 + (p.x - 500) \div 2,
           p.y - 50 + (p.x - 500) \div 4,
           p.z + (p.x - 500) \div 4)

FacePoint(variant, i) == IF variant = 1 THEN FacePoint1(i) ELSE FacePoint2(i)

\* a body of the test set: normalized pose landmark i, in 1/1000
PosePoint(variant, i) ==
  IF variant = 1
  THEN CASE i = 11 -> Point(650, 600, -100)
         [] i = 12 -> Point(350, 600, -100)
         [] i = 23 -> Point(600, 950, 0)
         [] i = 24 -> Point(400, 950, 0)
  ELSE CASE i = 11 -> Point(600, 550, -200)
         [] i = 12 -> Point(400, 600, 0)
         [] i = 23 -> Point(580, 900, -50)
         [] i = 24 -> Point(420, 920, 50)

Variants == {1, 2}

\* the array of the first len landmarks
DenseFace(len, variant) ==
  [len |-> len, pt |-> [i \in {k \in FaceKeys : k < len} |-> FacePoint(variant, i)]]

DensePose(len, variant) ==
  [len |-> len, pt |-> [i \in {k \in PoseKeys : k < len} |-> PosePoint(variant, i)]]

\* results.faceLandmarks: absent, empty, short or complete
FaceInputs ==
  {Undefined, DenseFace(0, 1), DenseFace(200, 1), DenseFace(460, 1)}
    \cup {DenseFace(FACE_LANDMARK_COUNT, v) : v \in Variants}

\* results.poseLandmarks: absent, empty, without hips or complete
PoseInputs ==
  {Undefined, DensePose(0, 1), DensePose(23, 1)}
    \cup {DensePose(33, v) : v \in Variants}

DetectionResults ==
  {[faceLandmarks |-> f, poseLandmarks |-> q] : f \in FaceInputs, q \in PoseInputs}

NoResults == [none |-> TRUE]

---------------------------------------------------------------------------
(* The glasses-only viewer (the first FaceMeshViewer component of          *)
(* src/src/FaceMeshViewer.jsx).  Its video is 640 x 480; the detector      *)
(* delivers keypoints in pixels.                                           *)

GLASSES_VIDEO_WIDTH == 640
GLASSES_VIDEO_HEIGHT == 480
\* face.keypoints.length > 400
MIN_KEYPOINTS == 400

\* Math.sin(x) for |x| <= pi/2, x and the result in 1/1000
Sin(x) ==
  LET x2 == (x * x) \div Milli
      x3 == (x * x2) \div Milli
      x5 == (x3 * x2) \div Milli
  IN x - x3 \div 6 + x5 \div 120

\* the placement detectLoop starts each turn with
NeutralAlignment ==
  [position |-> Point(0, 0, -300),
   rotation |-> [pitch |-> 0, yaw |-> 0, roll |-> 0],
   scale |-> Milli]

\* the placement detectLoop uses when the detector finds no face
NoFaceAlignment == [NeutralAlignment EXCEPT !.scale = 2500]

\* getSimulatedAlignment() at Date.now() * 0.001 = time (in 1/1000 s)
getSimulatedAlignment(time) ==
  [position |-> Point(0, 0, -300),
   rotation |-> [pitch |-> Sin((time * 7) \div 10) \div 10,
                 yaw |-> (Sin((time * 5) \div 10) * 2) \div 10,
                 roll |-> Sin((time * 3) \div 10) \div 10],
   scale |-> Milli]

\* the clock values of the loop turns, in 1/1000 s
SimulationTimes == {0, 1000, 2000}

\* uvToWorld of the glasses-only viewer: the same camera with aspect 640 / 480
glassesUvToWorld(u, v, planeZ) ==
  LET dirX == ((u * 2 - Milli) * ((TanHalfFov * GLASSES_VIDEO_WIDTH) \div GLASSES_VIDEO_HEIGHT))
                 \div Milli
      dirY == ((Milli - v * 2) * TanHalfFov) \div Milli
      t == ((planeZ - CameraPosition.z) * Milli) \div (-Milli)
  IN Point(CameraPosition.x + (dirX * t) \div Milli,
           CameraPosition.y + (dirY * t) \div Milli,
           CameraPosition.z + (-Milli * t) \div Milli)

\* getFaceAlignment(landmarks): keypoints in 1/10 pixel; a missing keypoint
\* makes the body throw, and the catch returns the neutral placement
getFaceAlignment(landmarks) ==
  LET leftEyeCenter == At(landmarks, 159)
      rightEyeCenter == At(landmarks, 386)
      noseTip == At(landmarks, 1)
  IN IF ~Truthy(leftEyeCenter) \/ ~Truthy(rightEyeCenter) \/ ~Truthy(noseTip)
     THEN NeutralAlignment
     ELSE
     LET glassesCenter ==
           Point((leftEyeCenter.x + rightEyeCenter.x) \div 2,
                 (leftEyeCenter.y + rightEyeCenter.y) \div 2 + PxUnit \div 100,
                 (leftEyeCenter.z + rightEyeCenter.z) \div 2 - (5 * PxUnit) \div 100)
         u == (glassesCenter.x * Milli) \div (GLASSES_VIDEO_WIDTH * PxUnit)
         v == (glassesCenter.y * Milli) \div (GLASSES_VIDEO_HEIGHT * PxUnit) - 20
         world == glassesUvToWorld(u, v, 0)
         eyeDistancePixels ==
           Sqrt((rightEyeCenter.x - leftEyeCenter.x) * (rightEyeCenter.x - leftEyeCenter.x)
                + (rightEyeCenter.y - leftEyeCenter.y) * (rightEyeCenter.y - leftEyeCenter.y)
                + (rightEyeCenter.z - leftEyeCenter.z) * (rightEyeCenter.z - leftEyeCenter.z))
         eyeDistanceNormalized ==
           (eyeDistancePixels * Milli) \div (GLASSES_VIDEO_WIDTH * PxUnit)
         scale == Max(500, Min(3000, eyeDistanceNormalized * 20))
         roll == -Atan2(rightEyeCenter.y - leftEyeCenter.y,
                        rightEyeCenter.x - leftEyeCenter.x)
         noseOffsetPixels == noseTip.x - (leftEyeCenter.x + rightEyeCenter.x) \div 2
         yaw == (Atan2(noseOffsetPixels, eyeDistancePixels) * 12) \div 10
         noseOffsetY == noseTip.y - (leftEyeCenter.y + rightEyeCenter.y) \div 2
         pitch == Atan2(noseOffsetY, (eyeDistancePixels * 8) \div 10) - 800
     IN [position |-> Point(world.x, world.y, world.z),
         rotation |-> [pitch |-> pitch, yaw |-> yaw, roll |-> roll],
         scale |-> scale]

\* the glasses model after the success callback of loadGlassesModel
LoadedGlasses ==
  [kind |-> "model", visible |-> TRUE, position |-> Vec(0, 0, -300),
   rotation |-> Vec(0, 0, 0), scale |-> 100]

\* the cube of createFallbackCube
DebugCube ==
  [kind |-> "cube", visible |-> TRUE, position |-> Vec(0, 0, -300),
   rotation |-> Vec(0, 0, 0), scale |-> Milli]

\* what estimateFaces resolves with: no face, a face with too few
\* keypoints, a face with all keypoints; or it rejects
Predictions ==
  {[faces |-> 0], [rejected |-> TRUE]}
    \cup {[faces |-> 1, keypoints |-> convertFaceLandmarksToPixelPoints(DenseFace(len, 1))] :
            len \in {200, FACE_LANDMARK_COUNT}}

\* the glasses-only viewer when its effect has started init(): initCamera
\* is waiting for getUserMedia
GlassesViewerMounted ==
  [isRunning |-> TRUE,
   initPc |-> "getUserMedia",
   stream |-> "none",
   srcObject |-> FALSE,
   sceneRef |-> FALSE,
   rendererState |-> "none",
   glassesRef |-> Null,
   detectorRef |-> FALSE,
   isModelLoaded |-> FALSE,
   isGlassesLoaded |-> FALSE,
   status |-> <<"Requesting camera access...">>,
   loopPc |-> "none",
   alignment |-> Null,
   source |-> "none",
   afterTeardown |-> {},
   nTurns |-> 0]

---------------------------------------------------------------------------
(* The voice agent (GeminiAgentController.jsx).  A request is the call of  *)
(* processRequest that a stop has scheduled: [pc, text], pc being "timer", *)
(* "fetching", "queued", "speaking", "cancelled" or "done".  The two       *)
(* properties of the browser are "unknown" until the code first reads them.*)

SCREENSHOT_COUNT == 3

AgentMounted ==
  [browserSupportsSpeechRecognition |-> "unknown", speechSynthesis |-> "unknown",
   isRecording |-> FALSE, agentStatus |-> <<"Idle">>, aiResponse |-> "",
   screenshots |-> 0, interval |-> "none", capturing |-> 0,
   requests |-> << >>, nSessions |-> 0]

\* handleStart, followed by the effect of isRecording: the screenshot array is
\* replaced and the interval is set
handleStart(a, supported) ==
  IF supported = "no"
  THEN [a EXCEPT !.browserSupportsSpeechRecognition = "no",
                 !.agentStatus = <<"Speech recognition not supported.">>]
  ELSE [a EXCEPT !.browserSupportsSpeechRecognition = "yes",
                 !.isRecording = TRUE,
                 !.aiResponse = "",
                 !.agentStatus = <<"Listening...">>,
                 !.screenshots = 0,
                 !.interval = "set",
                 !.nSessions = @ + 1]

\* the interval callback up to its await
intervalCallback(a) ==
  IF a.screenshots < SCREENSHOT_COUNT
  THEN [a EXCEPT !.capturing = @ + 1]
  ELSE [a EXCEPT !.interval = "none"]

\* the interval callback after captureScreen has settled; screenshot: the
\* capture returned an image
captureSettled(a, screenshot) ==
  IF screenshot
  THEN [a EXCEPT !.capturing = @ - 1,
                 !.screenshots = @ + 1,
                 !.agentStatus = <<"Captured", a.screenshots + 1>>]
  ELSE [a EXCEPT !.capturing = @ - 1]

\* handleStop, followed by the cleanup of the effect of isRecording
handleStop(a, text) ==
  [a EXCEPT !.isRecording = FALSE,
            !.interval = "none",
            !.agentStatus = <<"Processing...">>,
            !.requests = Append(@, [pc |-> "timer", text |-> text])]

\* processRequest(text, images) up to its fetch; GEMINI_API_KEY is not the
\* placeholder, so the test of the key fails
processRequest(a, k) ==
  IF ~a.requests[k].text /\ a.screenshots = 0
  THEN [a EXCEPT !.agentStatus = <<"Nothing to process.">>, !.requests[k].pc = "done"]
  ELSE [a EXCEPT !.agentStatus = <<"Thinking...">>,
                 !.aiResponse = "",
                 !.requests[k].pc = "fetching"]

\* speak(text) for request k: the queue is cleared and the utterance queued
speak(a, k, available) ==
  IF available = "no"
  THEN [a EXCEPT !.speechSynthesis = "no", !.requests[k].pc = "done"]
  ELSE [a EXCEPT !.speechSynthesis = "yes",
                 !.requests = [j \in DOMAIN a.requests |->
                                 IF j = k THEN [a.requests[j] EXCEPT !.pc = "queued"]
                                 ELSE IF a.requests[j].pc \in {"queued", "speaking"}
                                 THEN [a.requests[j] EXCEPT !.pc = "cancelled"]
                                 ELSE a.requests[j]]]

\* processRequest after its fetch: the reply is shown and spoken, or the
\* catch block reports the error
fetchSettled(a, k, reply, available) ==
  IF reply
  THEN speak([a EXCEPT !.aiResponse = "reply"], k, available)
  ELSE [a EXCEPT !.agentStatus = <<"Error">>,
                 !.aiResponse = "error",
                 !.requests[k].pc = "done"]

---------------------------------------------------------------------------
(* The viewer: state after mount *)

NoCall == [fn |-> "none"]
NoRet == [none |-> TRUE]

\* the video element is attached to videoRef while the component is mounted
VideoAttached == running

InitViewer ==
  /\ selectedAccessory = DefaultAccessory
  /\ activeCategory = "Glasses"
  /\ isAccessoryLoaded = FALSE
  /\ isModelLoaded = FALSE
  /\ status = <<"Requesting camera access...">>
  /\ currentAccessoryRef = DefaultAccessory
  /\ isSceneReady = FALSE
  /\ sceneRef = FALSE
  /\ rendererState = "none"
  /\ sceneObjs = {}
  /\ objs = <<>>
  /\ accessoryRef = 0
  /\ accessoryInstancesRef = <<>>
  /\ faceOccluderRef = Null
  /\ loads = <<>>
  /\ running = TRUE
  /\ initPc = "getUserMedia"
  /\ stream = "none"
  /\ srcObject = FALSE
  /\ holisticRef = "none"
  /\ cameraUtilRef = "none"
  /\ fallbackPc = "none"
  /\ renderPc = "none"
  /\ nRenders = 0
  /\ lastResults = NoResults
  /\ lastAlignment = Null
  /\ lastOutcome = "none"
  /\ afterTeardown = {}
  /\ nFrames = 0
  /\ shirtPlaced = FALSE
  /\ glassesViewer = GlassesViewerMounted
  /\ agent = AgentMounted

Init ==
  /\ InitViewer
  /\ lastTShirtAlignment = Null
  /\ call = NoCall
  /\ ret = NoRet

appVars == << selectedAccessory, activeCategory >>
sceneVars == << sceneObjs, objs, accessoryRef, accessoryInstancesRef >>
loadVars == << isAccessoryLoaded, loads >>
initVars == << isSceneReady, sceneRef, rendererState, initPc, stream, srcObject,
               holisticRef, cameraUtilRef, isModelLoaded >>
loopVars == << fallbackPc, renderPc, nRenders >>
frameVars == << faceOccluderRef, lastTShirtAlignment, lastResults, lastAlignment,
               lastOutcome, nFrames >>
pureVars == << call, ret >>

---------------------------------------------------------------------------
(* Loading the selected accessory *)

\* the synchronous head of loadAccessoryModel(accessoryConfig), up to the
\* await of the dynamic import
StartLoad(accessory) ==
  LET c == cleanupAccessories(sceneObjs, sceneRef, accessoryRef, accessoryInstancesRef)
  IN /\ sceneObjs' = c.scene
     /\ accessoryRef' = c.ref
     /\ accessoryInstancesRef' = c.instances
     /\ objs' = Restrict(objs, Reachable(c.scene, c.ref, c.instances))
     /\ isAccessoryLoaded' = FALSE
     /\ status' = <<"Loading", ACCESSORIES[accessory].name>>
     /\ loads' = Append(loads, [accessory |-> accessory, stage |-> "import"])

\* the two effects that depend on [accessory]: currentAccessoryRef is
\* updated, and the accessory is loaded when the scene is ready
AccessoryEffects(accessory) ==
  /\ currentAccessoryRef' = accessory
  /\ shirtPlaced' = FALSE
  /\ IF isSceneReady
     THEN StartLoad(accessory)
     ELSE UNCHANGED << sceneVars, loadVars, status >>

\* the user clicks a category button
\* a category button that makes the category active and keeps the selection
ClickCategoryOnly(category) ==
  /\ running
  /\ isSceneReady => Len(loads) > 0
  /\ activeCategory' = category
  /\ UNCHANGED << selectedAccessory, currentAccessoryRef, sceneVars, loadVars, status,
                  shirtPlaced, initVars, loopVars, frameVars, running, afterTeardown,
                  pureVars, glassesViewer, agent >>

ClickCategory(category) ==
  /\ running
  /\ isSceneReady => Len(loads) > 0
  /\ LET firstInCategory == accessoriesByCategory(category)[1]
     IN /\ activeCategory' = category
        /\ selectedAccessory' = firstInCategory
        /\ IF firstInCategory # selectedAccessory
           THEN AccessoryEffects(firstInCategory)
           ELSE UNCHANGED << currentAccessoryRef, sceneVars, loadVars, status, shirtPlaced >>
  /\ UNCHANGED << initVars, loopVars, frameVars, running, afterTeardown, pureVars, glassesViewer, agent >>

\* the user clicks an accessory button of the active category
ClickAccessory(accessory) ==
  /\ running
  /\ isSceneReady => Len(loads) > 0
  /\ \E k \in 1..Min(MaxPerCategory, Len(accessoriesByCategory(activeCategory))) :
       accessory = accessoriesByCategory(activeCategory)[k]
  /\ accessory # selectedAccessory
  /\ selectedAccessory' = accessory
  /\ AccessoryEffects(accessory)
  /\ UNCHANGED << activeCategory, initVars, loopVars, frameVars, running, afterTeardown,
                  pureVars, glassesViewer, agent >>

\* createFallbackModel without setIsAccessoryLoaded(true)
createFallbackModelNoFlag(type, load) ==
  IF ~sceneRef
  THEN [scene |-> sceneObjs, objs |-> objs, ref |-> accessoryRef,
        instances |-> accessoryInstancesRef, loaded |-> isAccessoryLoaded, status |-> status]
  ELSE IF type = EARRINGS
  THEN [scene |-> sceneObjs \cup {ObjId(load, 1), ObjId(load, 2)},
        objs |-> Override(objs, [i \in {ObjId(load, 1), ObjId(load, 2)} |->
                                   FallbackCube(load, IF i = ObjId(load, 1) THEN -200 ELSE 200)]),
        ref |-> accessoryRef,
        instances |-> accessoryInstancesRef \o <<ObjId(load, 1), ObjId(load, 2)>>,
        loaded |-> isAccessoryLoaded, status |-> <<"Using DEBUG MODE", type>>]
  ELSE [scene |-> sceneObjs \cup {ObjId(load, 1)},
        objs |-> Restrict(Override(objs, [i \in {ObjId(load, 1)} |-> FallbackCube(load, 0)]),
                          Reachable(sceneObjs \cup {ObjId(load, 1)}, ObjId(load, 1),
                                    accessoryInstancesRef)),
        ref |-> ObjId(load, 1),
        instances |-> accessoryInstancesRef,
        loaded |-> isAccessoryLoaded, status |-> <<"Using DEBUG MODE", type>>]

\* createFallbackModel(type) for the load-th call: [scene, objs, ref, instances] afterwards
createFallbackModel(type, load) ==
  IF ~sceneRef
  THEN [scene |-> sceneObjs, objs |-> objs, ref |-> accessoryRef,
        instances |-> accessoryInstancesRef, loaded |-> isAccessoryLoaded, status |-> status]
  ELSE IF type = EARRINGS
  THEN [scene |-> sceneObjs \cup {ObjId(load, 1), ObjId(load, 2)},
        objs |-> Override(objs, [i \in {ObjId(load, 1), ObjId(load, 2)} |->
                                   FallbackCube(load, IF i = ObjId(load, 1) THEN -200 ELSE 200)]),
        ref |-> accessoryRef,
        instances |-> accessoryInstancesRef \o <<ObjId(load, 1), ObjId(load, 2)>>,
        loaded |-> TRUE, status |-> <<"Using DEBUG MODE", type>>]
  ELSE [scene |-> sceneObjs \cup {ObjId(load, 1)},
        objs |-> Restrict(Override(objs, [i \in {ObjId(load, 1)} |-> FallbackCube(load, 0)]),
                          Reachable(sceneObjs \cup {ObjId(load, 1)}, ObjId(load, 1),
                                    accessoryInstancesRef)),
        ref |-> ObjId(load, 1),
        instances |-> accessoryInstancesRef,
        loaded |-> TRUE, status |-> <<"Using DEBUG MODE", type>>]

ApplyFallback(type, load) ==
  LET f == createFallbackModel(type, load)
  IN /\ sceneObjs' = f.scene
     /\ objs' = f.objs
     /\ accessoryRef' = f.ref
     /\ accessoryInstancesRef' = f.instances
     /\ isAccessoryLoaded' = f.loaded
     /\ status' = f.status

\* the dynamic import resolves and loader.load(...) is called
ImportResolved(k) ==
  /\ k \in 1..Len(loads)
  /\ loads[k].stage = "import"
  /\ loads' = [loads EXCEPT ![k].stage = "loading"]
  /\ UNCHANGED << appVars, isAccessoryLoaded, status, currentAccessoryRef, sceneVars,
                  initVars, loopVars, frameVars, running, afterTeardown, pureVars, shirtPlaced, glassesViewer, agent >>

\* the dynamic import rejects or the loader cannot be set up: the catch block
ImportFailed(k) ==
  /\ k \in 1..Len(loads)
  /\ loads[k].stage = "import"
  /\ loads' = [loads EXCEPT ![k].stage = "failed"]
  /\ ApplyFallback(TypeOf(loads[k].accessory), k)
  /\ UNCHANGED << appVars, currentAccessoryRef, initVars, loopVars, frameVars, running,
                  afterTeardown, pureVars, shirtPlaced, glassesViewer, agent >>

\* the progress callback of loader.load
LoadProgress(k) ==
  /\ k \in 1..Len(loads)
  /\ loads[k].stage = "loading"
  /\ status' = <<"Loading", ACCESSORIES[loads[k].accessory].name, "%">>
  /\ UNCHANGED << appVars, loadVars, currentAccessoryRef, sceneVars, initVars, loopVars,
                  frameVars, running, afterTeardown, pureVars, shirtPlaced, glassesViewer, agent >>

\* the success callback of loader.load
LoadSuccess(k) ==
  /\ k \in 1..Len(loads)
  /\ loads[k].stage = "loading"
  /\ loads' = [loads EXCEPT ![k].stage = "loaded"]
  /\ LET accessoryConfig == ACCESSORIES[loads[k].accessory]
         needsMultipleInstances == accessoryConfig.type = EARRINGS
     IN /\ IF needsMultipleInstances
           THEN /\ sceneObjs' = sceneObjs \cup {ObjId(k, 1), ObjId(k, 2)}
                /\ objs' = Override(objs, [i \in {ObjId(k, 1), ObjId(k, 2)} |-> SetupMesh(k)])
                /\ accessoryInstancesRef' = accessoryInstancesRef \o <<ObjId(k, 1), ObjId(k, 2)>>
                /\ UNCHANGED accessoryRef
           ELSE /\ sceneObjs' = sceneObjs \cup {ObjId(k, 1)}
                /\ objs' = Restrict(Override(objs, [i \in {ObjId(k, 1)} |-> SetupMesh(k)]),
                                    Reachable(sceneObjs \cup {ObjId(k, 1)}, ObjId(k, 1),
                                              accessoryInstancesRef))
                /\ accessoryRef' = ObjId(k, 1)
                /\ UNCHANGED accessoryInstancesRef
        /\ isAccessoryLoaded' = TRUE
        /\ status' = <<"loaded successfully!", accessoryConfig.name>>
  /\ UNCHANGED << appVars, currentAccessoryRef, initVars, loopVars, frameVars, running,
                  afterTeardown, pureVars, shirtPlaced, glassesViewer, agent >>

\* the error callback of loader.load
LoadError(k) ==
  /\ k \in 1..Len(loads)
  /\ loads[k].stage = "loading"
  /\ loads' = [loads EXCEPT ![k].stage = "failed"]
  /\ ApplyFallback(TypeOf(loads[k].accessory), k)
  /\ UNCHANGED << appVars, currentAccessoryRef, initVars, loopVars, frameVars, running,
                  afterTeardown, pureVars, shirtPlaced, glassesViewer, agent >>

\* setIsSceneReady(true) re-renders the mounted component: the accessory
\* loading effect, which depends on [accessory, isSceneReady], runs for the
\* selected accessory (a click that came first has already run it)
SceneReadyEffect ==
  /\ running
  /\ isSceneReady
  /\ Len(loads) = 0
  /\ StartLoad(selectedAccessory)
  /\ UNCHANGED << appVars, currentAccessoryRef, initVars, loopVars, frameVars, running,
                  afterTeardown, pureVars, shirtPlaced, glassesViewer, agent >>

---------------------------------------------------------------------------
(* initAll.  The function is suspended at three awaits: getUserMedia, the  *)
(* loadedmetadata event and video.play(); the code between two of them     *)
(* runs without interruption (the other awaits resume in microtasks).      *)

\* the outputs of a step are recorded once the viewer has been torn down
Late(outputs) == IF running THEN afterTeardown ELSE afterTeardown \cup outputs

\* renderLoop without the test of running
renderLoopUnguarded(canRender) == [render |-> canRender, pc |-> "scheduled"]

\* renderLoop(): [render, pc] of one call
renderLoop(canRender) ==
  IF ~running THEN [render |-> FALSE, pc |-> "ended"]
  ELSE [render |-> canRender, pc |-> "scheduled"]

\* fallbackLoop(): [send, pc] of one call, up to its await or its return;
\* ready stands for video.readyState >= 2
fallbackLoop(hasHolistic, ready) ==
  IF ~running THEN [send |-> FALSE, pc |-> "ended"]
  ELSE IF hasHolistic /\ VideoAttached /\ ready
       THEN [send |-> TRUE, pc |-> "sending"]
       ELSE [send |-> FALSE, pc |-> "scheduled"]

\* initAll from initThreeJS() to the await of video.play() or to its end:
\* initThreeJS, createFaceOccluder, initHolistic, startCameraSendingToHolistic,
\* play, renderLoop.  threeOk, holisticOk, cameraOk: the step does not throw;
\* needsPlay: video.readyState < 4
InitRest(threeOk, holisticOk, cameraOk, ready, needsPlay) ==
  IF ~threeOk
  THEN /\ status' = <<"Initialization failed">>
       /\ initPc' = "failed"
       /\ UNCHANGED << sceneRef, rendererState, isSceneReady, faceOccluderRef, holisticRef,
                       isModelLoaded, cameraUtilRef, fallbackPc, renderPc, nRenders, afterTeardown >>
  ELSE LET fl == fallbackLoop(holisticOk, ready)
           rl == renderLoop(TRUE)
           camera == VideoAttached /\ cameraOk
           fallback == VideoAttached /\ ~cameraOk
           awaitPlay == VideoAttached /\ needsPlay
       IN /\ sceneRef' = TRUE
          /\ rendererState' = "live"
          /\ isSceneReady' = TRUE
          /\ faceOccluderRef' = NewOccluder
          /\ holisticRef' = IF holisticOk THEN "open" ELSE holisticRef
          /\ isModelLoaded' = holisticOk
          /\ status' = IF holisticOk THEN <<"Holistic ready">>
                       ELSE <<"Holistic initialization failed">>
          /\ cameraUtilRef' = IF camera THEN "started" ELSE cameraUtilRef
          /\ fallbackPc' = IF fallback THEN fl.pc ELSE fallbackPc
          /\ initPc' = IF awaitPlay THEN "play" ELSE "done"
          /\ renderPc' = IF awaitPlay THEN renderPc ELSE rl.pc
          /\ nRenders' = IF ~awaitPlay /\ rl.render THEN nRenders + 1 ELSE nRenders
          /\ afterTeardown' = Late((IF fallback /\ fl.send THEN {"send"} ELSE {})
                                   \cup (IF ~awaitPlay /\ rl.render THEN {"render"} ELSE {}))

\* getUserMedia resolves with a stream; without a video element
\* initCameraElement returns at once and initAll goes on
CameraGranted ==
  /\ initPc = "getUserMedia"
  /\ stream' = "live"
  /\ IF VideoAttached
     THEN /\ srcObject' = TRUE
          /\ initPc' = "metadata"
          /\ UNCHANGED << status, sceneRef, rendererState, isSceneReady, faceOccluderRef,
                          holisticRef, isModelLoaded, cameraUtilRef, fallbackPc, renderPc, nRenders,
                          afterTeardown >>
     ELSE /\ UNCHANGED srcObject
          /\ \E threeOk, holisticOk \in BOOLEAN :
               InitRest(threeOk, holisticOk, TRUE, TRUE, FALSE)
  /\ UNCHANGED << appVars, loadVars, currentAccessoryRef, sceneVars, lastTShirtAlignment,
                  lastResults, lastAlignment, lastOutcome, nFrames, running, pureVars, shirtPlaced, glassesViewer, agent >>

\* getUserMedia rejects: initCameraElement rethrows and initAll gives up
CameraDenied ==
  /\ initPc = "getUserMedia"
  /\ status' = <<"Initialization failed">>
  /\ initPc' = "failed"
  /\ UNCHANGED << appVars, loadVars, currentAccessoryRef, sceneVars, isSceneReady, sceneRef,
                  rendererState, stream, srcObject, holisticRef, cameraUtilRef, isModelLoaded,
                  loopVars, frameVars, running, afterTeardown, pureVars, shirtPlaced, glassesViewer, agent >>

\* video.onloadedmetadata: initCameraElement resolves and initAll goes on
MetadataLoaded ==
  /\ initPc = "metadata"
  /\ \E threeOk, holisticOk, cameraOk, ready, needsPlay \in BOOLEAN :
       InitRest(threeOk, holisticOk, cameraOk, ready, needsPlay)
  /\ UNCHANGED << appVars, loadVars, currentAccessoryRef, sceneVars, stream, srcObject,
                  lastTShirtAlignment, lastResults, lastAlignment, lastOutcome, nFrames,
                  running, pureVars, shirtPlaced, glassesViewer, agent >>

\* the promise of video.play() settles; renderLoop() is called
PlaySettled ==
  /\ initPc = "play"
  /\ initPc' = "done"
  /\ renderPc' = renderLoop(TRUE).pc
  /\ nRenders' = IF renderLoop(TRUE).render THEN nRenders + 1 ELSE nRenders
  /\ afterTeardown' = Late(IF renderLoop(TRUE).render THEN {"render"} ELSE {})
  /\ UNCHANGED << appVars, loadVars, status, currentAccessoryRef, sceneVars, isSceneReady,
                  sceneRef, rendererState, stream, srcObject, holisticRef, cameraUtilRef,
                  isModelLoaded, fallbackPc, frameVars, running, pureVars, shirtPlaced, glassesViewer, agent >>

---------------------------------------------------------------------------
(* The frame loops *)

\* a renderLoop that hides the accessories before it draws
RenderLoopTickHiding ==
  /\ renderPc = "scheduled"
  /\ running => nRenders < MaxRenders
  /\ renderPc' = renderLoop(TRUE).pc
  /\ nRenders' = IF renderLoop(TRUE).render THEN nRenders + 1 ELSE nRenders
  /\ afterTeardown' = Late(IF renderLoop(TRUE).render THEN {"render"} ELSE {})
  /\ objs' = hideAllAccessories(objs, accessoryRef, accessoryInstancesRef)
  /\ UNCHANGED << appVars, loadVars, status, currentAccessoryRef, sceneObjs, accessoryRef,
                  accessoryInstancesRef, initVars, fallbackPc, frameVars, running,
                  pureVars, shirtPlaced, glassesViewer, agent >>

\* an animation frame calls renderLoop
RenderLoopTick ==
  /\ renderPc = "scheduled"
  /\ running => nRenders < MaxRenders
  /\ renderPc' = renderLoop(TRUE).pc
  /\ nRenders' = IF renderLoop(TRUE).render THEN nRenders + 1 ELSE nRenders
  /\ afterTeardown' = Late(IF renderLoop(TRUE).render THEN {"render"} ELSE {})
  /\ UNCHANGED << appVars, loadVars, status, currentAccessoryRef, sceneVars, initVars,
                  fallbackPc, frameVars, running, pureVars, shirtPlaced, glassesViewer, agent >>

\* an animation frame calls fallbackLoop
FallbackLoopTick ==
  /\ fallbackPc = "scheduled"
  /\ \E ready \in BOOLEAN :
       LET fl == fallbackLoop(holisticRef # "none", ready)
       IN /\ fallbackPc' = fl.pc
          /\ afterTeardown' = Late(IF fl.send THEN {"send"} ELSE {})
  /\ UNCHANGED << appVars, loadVars, status, currentAccessoryRef, sceneVars, initVars,
                  renderPc, nRenders, frameVars, running, pureVars, shirtPlaced, glassesViewer, agent >>

\* the send of fallbackLoop settles and the next animation frame is requested
FallbackSendSettled ==
  /\ fallbackPc = "sending"
  /\ fallbackPc' = "scheduled"
  /\ UNCHANGED << appVars, loadVars, status, currentAccessoryRef, sceneVars, initVars,
                  renderPc, nRenders, frameVars, running, afterTeardown, pureVars, shirtPlaced, glassesViewer, agent >>

\* the onFrame callback of the camera utility sends the video frame
OnFrame ==
  /\ cameraUtilRef = "started"
  /\ afterTeardown' = Late(IF holisticRef # "none" THEN {"send"} ELSE {})
  /\ UNCHANGED << appVars, loadVars, status, currentAccessoryRef, sceneVars, initVars,
                  loopVars, frameVars, running, pureVars, shirtPlaced, glassesViewer, agent >>

---------------------------------------------------------------------------
(* Frame orchestrator *)

\* the catch block of onHolisticResults: a strategy that throws leaves
\* alignment null
Caught(r) ==
  IF r.raised THEN [alignment |-> Null, last |-> r.last]
  ELSE [alignment |-> r.value, last |-> r.last]

\* the try block of onHolisticResults: [alignment, last] afterwards
RunStrategy(results, facePoints) ==
  IF currentAccessoryRef = 0 THEN [alignment |-> Null, last |-> lastTShirtAlignment]
  ELSE Caught(AccessoryAlignmentStrategies(
                TypeOf(currentAccessoryRef),
                IF TypeOf(currentAccessoryRef) \in {NECKLACE, T_SHIRT}
                THEN results.poseLandmarks ELSE facePoints,
                lastTShirtAlignment))

\* the end of onHolisticResults: setStatus and updateAccessoryAlignment(alignment),
\* whose effects are u
PlaceAccessory(alignment, u) ==
  /\ status' = IF Truthy(alignment) /\ alignment.visible
               THEN <<"Tracking face", ACCESSORIES[currentAccessoryRef].name>>
               ELSE <<"No face/pose detected or accessory not visible">>
  /\ objs' = u.objs
  /\ lastOutcome' = IF u.raised THEN "threw" ELSE "returned"
  /\ lastAlignment' = alignment
  /\ afterTeardown' = Late(IF u.render THEN {"render"} ELSE {})

\* onHolisticResults after the strategy has run with the result s
AlignAccessory(s) ==
  /\ lastTShirtAlignment' = s.last
  /\ shirtPlaced' = \/ shirtPlaced
                    \/ /\ currentAccessoryRef # 0
                       /\ TypeOf(currentAccessoryRef) = T_SHIRT
                       /\ Truthy(s.alignment) /\ s.alignment.visible
  /\ PlaceAccessory(s.alignment,
                    updateAccessoryAlignment(s.alignment, objs, accessoryRef,
                                             accessoryInstancesRef,
                                             rendererState # "none" /\ sceneRef))

\* onHolisticResults of a running viewer, facePoints being converted
ProcessResults(results, facePoints) ==
  /\ faceOccluderRef' =
       IF Truthy(facePoints)
       THEN updateFaceOccluderFromFaceLandmarks(faceOccluderRef, facePoints)
       ELSE faceOccluderRef
  /\ lastResults' = results
  /\ AlignAccessory(RunStrategy(results, facePoints))

\* Holistic delivers the results of a frame it was sent
onHolisticResults(results) ==
  /\ holisticRef # "none"
  /\ cameraUtilRef # "none" \/ fallbackPc = "sending"
  /\ nFrames' = nFrames + 1
  /\ IF ~running
     THEN /\ lastOutcome' = "ignored"
          /\ UNCHANGED << faceOccluderRef, lastTShirtAlignment, status, objs, lastResults,
                          lastAlignment, afterTeardown, shirtPlaced >>
     ELSE ProcessResults(results,
                         IF Truthy(results.faceLandmarks)
                         THEN convertFaceLandmarksToPixelPoints(results.faceLandmarks)
                         ELSE Null)
  /\ UNCHANGED << appVars, loadVars, currentAccessoryRef, sceneObjs, accessoryRef,
                  accessoryInstancesRef, initVars, loopVars, running, pureVars, glassesViewer, agent >>

---------------------------------------------------------------------------
(* Teardown: the cleanup of the main effect, run when the viewer unmounts. *)
(* React detaches videoRef before or after the cleanup, depending on its   *)
(* version: refAttached.  The states of the accessory objects the cleanup  *)
(* removes from the scene are kept: their geometry and material exist      *)
(* until they are disposed.                                                *)

Teardown ==
  /\ running
  /\ running' = FALSE
  /\ afterTeardown' = {}
  /\ renderPc' = IF renderPc = "scheduled" THEN "cancelled" ELSE renderPc
  /\ cameraUtilRef' = IF cameraUtilRef # "none" THEN "stopped" ELSE cameraUtilRef
  /\ \E refAttached \in BOOLEAN :
       stream' = IF refAttached /\ srcObject /\ stream = "live" THEN "stopped" ELSE stream
  /\ holisticRef' = IF holisticRef # "none" THEN "closed" ELSE holisticRef
  /\ rendererState' = IF rendererState # "none" THEN "disposed" ELSE rendererState
  /\ faceOccluderRef' = IF Truthy(faceOccluderRef)
                        THEN [faceOccluderRef EXCEPT !.disposed = TRUE]
                        ELSE faceOccluderRef
  /\ LET c == cleanupAccessories(sceneObjs, sceneRef, accessoryRef, accessoryInstancesRef)
     IN /\ sceneObjs' = c.scene
        /\ accessoryRef' = c.ref
        /\ accessoryInstancesRef' = c.instances
        /\ objs' = objs
  /\ UNCHANGED << appVars, loadVars, status, currentAccessoryRef, isSceneReady, sceneRef,
                  initPc, srcObject, isModelLoaded, fallbackPc, nRenders, lastTShirtAlignment,
                  lastResults, lastAlignment, lastOutcome, nFrames, pureVars, shirtPlaced, glassesViewer, agent >>

---------------------------------------------------------------------------
(* The glasses-only viewer: init(), detectLoop and the effect cleanup.     *)
(* init() yields at getUserMedia, onloadedmetadata, the loader import, the *)
(* loader, the detector load and video.play(); detectLoop yields at        *)
(* estimateFaces.                                                          *)

multiViewerVars == << appVars, loadVars, status, currentAccessoryRef, sceneVars, initVars,
                      loopVars, frameVars, running, afterTeardown, shirtPlaced, pureVars >>

\* an output performed by the loop, recorded when it happens after the cleanup
LateOutput(gv, output) ==
  IF gv.isRunning THEN gv.afterTeardown ELSE gv.afterTeardown \cup {output}

\* updateGlassesAlignment(alignment)
updateGlassesAlignment(gv, alignment) ==
  IF ~Truthy(gv.glassesRef) THEN gv
  ELSE [gv EXCEPT
          !.glassesRef = [@ EXCEPT !.visible = TRUE,
                                   !.position = Vec(alignment.position.x,
                                                    alignment.position.y,
                                                    alignment.position.z),
                                   !.rotation = Vec(alignment.rotation.pitch,
                                                    alignment.rotation.yaw,
                                                    alignment.rotation.roll),
                                   !.scale = Max(100, Min(3000, alignment.scale))],
          !.afterTeardown = IF gv.sceneRef THEN LateOutput(gv, "render") ELSE @]

\* the end of a detectLoop turn: the placement is applied and the next turn
\* is requested
EndTurn(gv, alignment, source) ==
  LET applied == updateGlassesAlignment(gv, alignment)
  IN [applied EXCEPT !.alignment = alignment,
                     !.source = source,
                     !.loopPc = "scheduled",
                     !.afterTeardown = LateOutput(applied, "schedule"),
                     !.nTurns = @ + 1]

\* a detectLoop turn up to its await or its end; videoReady: videoRef.current
\* is set and its readyState is 4
detectLoop(gv, videoReady, time) ==
  IF ~gv.isRunning THEN [gv EXCEPT !.loopPc = "ended"]
  ELSE IF gv.detectorRef /\ videoReady THEN [gv EXCEPT !.loopPc = "estimating"]
  ELSE EndTurn([gv EXCEPT !.status = IF ~gv.detectorRef
                                     THEN <<"Simulation mode (model not loaded)">>
                                     ELSE @],
               getSimulatedAlignment(time), "simulated")

\* createFallbackCube()
createFallbackCube(gv) ==
  IF ~gv.sceneRef THEN gv
  ELSE [gv EXCEPT !.glassesRef = DebugCube,
                  !.isGlassesLoaded = TRUE,
                  !.status = <<"Using DEBUG CUBE (bright green)">>]

\* init() after initCamera: initThreeJS, the first detectLoop turn and the
\* start of loadGlassesModel
GlassesInitRest(gv, threeOk, time) ==
  IF ~threeOk
  THEN [gv EXCEPT !.status = <<"Initialization failed">>, !.initPc = "failed"]
  ELSE LET scene == [gv EXCEPT !.sceneRef = TRUE, !.rendererState = "live"]
           looped == detectLoop(scene, FALSE, time)
       IN [looped EXCEPT !.status = <<"Loading glasses model...">>, !.initPc = "import"]

\* getUserMedia resolves
GlassesCameraGranted ==
  /\ glassesViewer.initPc = "getUserMedia"
  /\ \E videoAttached \in (IF glassesViewer.isRunning THEN {TRUE} ELSE BOOLEAN),
        threeOk \in BOOLEAN, time \in SimulationTimes :
       glassesViewer' =
         IF videoAttached
         THEN [glassesViewer EXCEPT !.stream = "live", !.srcObject = TRUE,
                                    !.initPc = "metadata"]
         ELSE GlassesInitRest([glassesViewer EXCEPT !.stream = "live"], threeOk, time)
  /\ UNCHANGED << multiViewerVars, agent >>

\* getUserMedia rejects: initCamera rethrows into the catch of init
GlassesCameraDenied ==
  /\ glassesViewer.initPc = "getUserMedia"
  /\ glassesViewer' = [glassesViewer EXCEPT !.status = <<"Initialization failed">>,
                                            !.initPc = "failed"]
  /\ UNCHANGED << multiViewerVars, agent >>

\* onloadedmetadata fires
GlassesMetadataLoaded ==
  /\ glassesViewer.initPc = "metadata"
  /\ \E threeOk \in BOOLEAN, time \in SimulationTimes :
       glassesViewer' = GlassesInitRest(glassesViewer, threeOk, time)
  /\ UNCHANGED << multiViewerVars, agent >>

\* the import of the loader resolves: loader.load is started
GlassesImportResolved ==
  /\ glassesViewer.initPc = "import"
  /\ glassesViewer' = [glassesViewer EXCEPT !.initPc = "load"]
  /\ UNCHANGED << multiViewerVars, agent >>

\* the import of the loader rejects: the catch of loadGlassesModel, then
\* loadFaceMeshModel is started
GlassesImportFailed ==
  /\ glassesViewer.initPc = "import"
  /\ glassesViewer' = [createFallbackCube(glassesViewer) EXCEPT
                         !.status = <<"Loading TensorFlow...">>, !.initPc = "detector"]
  /\ UNCHANGED << multiViewerVars, agent >>

\* the success callback of loader.load
GlassesLoadSuccess ==
  /\ glassesViewer.initPc = "load"
  /\ glassesViewer' = [glassesViewer EXCEPT !.glassesRef = LoadedGlasses,
                                            !.isGlassesLoaded = TRUE,
                                            !.status = <<"Loading TensorFlow...">>,
                                            !.initPc = "detector"]
  /\ UNCHANGED << multiViewerVars, agent >>

\* the error callback of loader.load
GlassesLoadError ==
  /\ glassesViewer.initPc = "load"
  /\ glassesViewer' = [createFallbackCube(glassesViewer) EXCEPT
                         !.status = <<"Loading TensorFlow...">>, !.initPc = "detector"]
  /\ UNCHANGED << multiViewerVars, agent >>

\* loadFaceMeshModel: tf.ready() and createDetector resolve
DetectorLoaded ==
  /\ glassesViewer.initPc = "detector"
  /\ \E needsPlay \in BOOLEAN :
       glassesViewer' = [glassesViewer EXCEPT
                           !.detectorRef = TRUE,
                           !.isModelLoaded = TRUE,
                           !.status = <<"MediaPipe FaceMesh loaded successfully!">>,
                           !.initPc = IF needsPlay THEN "play" ELSE "done"]
  /\ UNCHANGED << multiViewerVars, agent >>

\* loadFaceMeshModel: tf.ready() or createDetector rejects
DetectorFailed ==
  /\ glassesViewer.initPc = "detector"
  /\ \E needsPlay \in BOOLEAN :
       glassesViewer' = [glassesViewer EXCEPT
                           !.isModelLoaded = FALSE,
                           !.status = <<"Model loading failed, using simulation">>,
                           !.initPc = IF needsPlay THEN "play" ELSE "done"]
  /\ UNCHANGED << multiViewerVars, agent >>

\* video.play() settles; a rejection reaches the catch of init
GlassesPlaySettled ==
  /\ glassesViewer.initPc = "play"
  /\ \E played \in BOOLEAN :
       glassesViewer' = IF played
                        THEN [glassesViewer EXCEPT !.initPc = "done"]
                        ELSE [glassesViewer EXCEPT !.status = <<"Initialization failed">>,
                                                   !.initPc = "failed"]
  /\ UNCHANGED << multiViewerVars, agent >>

\* the animation frame requested by detectLoop fires
DetectLoopTick ==
  /\ glassesViewer.loopPc = "scheduled"
  /\ \E videoReady \in BOOLEAN, time \in SimulationTimes :
       glassesViewer' = detectLoop(glassesViewer, videoReady, time)
  /\ UNCHANGED << multiViewerVars, agent >>

\* estimateFaces settles and the turn of detectLoop runs to its end
EstimateSettled ==
  /\ glassesViewer.loopPc = "estimating"
  /\ \E predictions \in Predictions, time \in SimulationTimes :
       glassesViewer' =
         IF "rejected" \in DOMAIN predictions
         THEN EndTurn([glassesViewer EXCEPT
                         !.status = <<"Detection error - using simulation">>],
                      getSimulatedAlignment(time), "simulated")
         ELSE IF predictions.faces = 0
         THEN EndTurn([glassesViewer EXCEPT !.status = <<"No face detected">>],
                      NoFaceAlignment, "noface")
         ELSE IF predictions.keypoints.len > MIN_KEYPOINTS
         THEN EndTurn([glassesViewer EXCEPT !.status = <<"Glasses aligned!">>],
                      getFaceAlignment(predictions.keypoints), "face")
         ELSE EndTurn(glassesViewer, NeutralAlignment, "neutral")
  /\ UNCHANGED << multiViewerVars, agent >>

\* the cleanup of the effect of the glasses-only viewer
GlassesTeardown ==
  /\ glassesViewer.isRunning
  /\ \E refAttached \in BOOLEAN :
       glassesViewer' =
         [glassesViewer EXCEPT
            !.isRunning = FALSE,
            !.afterTeardown = {},
            !.loopPc = IF @ = "scheduled" THEN "cancelled" ELSE @,
            !.stream = IF refAttached /\ glassesViewer.srcObject /\ @ = "live"
                       THEN "stopped" ELSE @,
            !.rendererState = IF @ # "none" THEN "disposed" ELSE @]
  /\ UNCHANGED << multiViewerVars, agent >>

---------------------------------------------------------------------------
(* The voice agent: its handlers, timers and pending calls *)

agentRestVars == << multiViewerVars, glassesViewer >>

\* the value read from a property of the browser is the one read before
Reads(known, value) == known \in {"unknown", value}

\* the microphone button is clicked while no recording runs
HandleStart ==
  /\ ~agent.isRecording
  /\ agent.nSessions < MaxSessions
  /\ \E supported \in {"yes", "no"} :
       /\ Reads(agent.browserSupportsSpeechRecognition, supported)
       /\ agent' = handleStart(agent, supported)
  /\ UNCHANGED agentRestVars

\* the button is clicked while a recording runs; text: the transcript is
\* not empty
HandleStop ==
  /\ agent.isRecording
  /\ \E text \in BOOLEAN : agent' = handleStop(agent, text)
  /\ UNCHANGED agentRestVars

\* the interval of SCREENSHOT_INTERVAL elapses
IntervalTick ==
  /\ agent.interval = "set"
  /\ agent.screenshots < SCREENSHOT_COUNT => agent.capturing < MaxCapturing
  /\ agent' = intervalCallback(agent)
  /\ UNCHANGED agentRestVars

\* a pending captureScreen settles
CaptureSettled ==
  /\ agent.capturing > 0
  /\ \E screenshot \in BOOLEAN : agent' = captureSettled(agent, screenshot)
  /\ UNCHANGED agentRestVars

\* the timeout of handleStop elapses
RequestTimer(k) ==
  /\ k \in DOMAIN agent.requests
  /\ agent.requests[k].pc = "timer"
  /\ agent' = processRequest(agent, k)
  /\ UNCHANGED agentRestVars

\* the API request of processRequest completes
FetchSettled(k) ==
  /\ k \in DOMAIN agent.requests
  /\ agent.requests[k].pc = "fetching"
  /\ \E reply \in BOOLEAN, available \in {"yes", "no"} :
       /\ Reads(agent.speechSynthesis, available)
       /\ agent' = fetchSettled(agent, k, reply, available)
  /\ UNCHANGED agentRestVars

\* utterance.onstart
UtteranceStart(k) ==
  /\ k \in DOMAIN agent.requests
  /\ agent.requests[k].pc = "queued"
  /\ agent' = [agent EXCEPT !.agentStatus = <<"Speaking...">>,
                            !.requests[k].pc = "speaking"]
  /\ UNCHANGED agentRestVars

\* utterance.onend
UtteranceEnd(k) ==
  /\ k \in DOMAIN agent.requests
  /\ agent.requests[k].pc = "speaking"
  /\ agent' = [agent EXCEPT !.agentStatus = <<"Idle">>, !.requests[k].pc = "done"]
  /\ UNCHANGED agentRestVars

\* an utterance removed by speechSynthesis.cancel(): the browser may or may
\* not fire its end event
UtteranceCancelled(k) ==
  /\ k \in DOMAIN agent.requests
  /\ agent.requests[k].pc = "cancelled"
  /\ \E ends \in BOOLEAN :
       agent' = [agent EXCEPT !.agentStatus = IF ends THEN <<"Idle">> ELSE @,
                              !.requests[k].pc = "done"]
  /\ UNCHANGED agentRestVars

AgentNext ==
  \/ HandleStart
  \/ HandleStop
  \/ IntervalTick
  \/ CaptureSettled
  \/ \E k \in 1..MaxSessions : RequestTimer(k)
  \/ \E k \in 1..MaxSessions : FetchSettled(k)
  \/ \E k \in 1..MaxSessions : UtteranceStart(k)
  \/ \E k \in 1..MaxSessions : UtteranceEnd(k)
  \/ \E k \in 1..MaxSessions : UtteranceCancelled(k)

\* timers elapse, pending calls settle and queued utterances are spoken
AgentFairness ==
  /\ WF_vars(CaptureSettled)
  /\ \A k \in 1..(MaxSessions + 1) :
       /\ WF_vars(RequestTimer(k))
       /\ WF_vars(FetchSettled(k))
       /\ WF_vars(UtteranceStart(k))
       /\ WF_vars(UtteranceEnd(k))
       /\ WF_vars(UtteranceCancelled(k))

AgentSpec == Init /\ [][AgentNext]_vars /\ AgentFairness

---------------------------------------------------------------------------
(* The strategies and the occluder builder as functions: a call is drawn   *)
(* from the inputs below and applied once.                                 *)

\* a face array in pixel space that lacks the landmarks of missing
SparseFace(missing, variant) ==
  LET full == convertFaceLandmarksToPixelPoints(DenseFace(FACE_LANDMARK_COUNT, variant))
  IN [len |-> full.len, pt |-> [i \in (DOMAIN full.pt) \ missing |-> full.pt[i]]]

\* a normalized pose array that holds the landmarks of present only
SparsePose(present, variant) ==
  [len |-> 33, pt |-> [i \in present |-> PosePoint(variant, i)]]

\* the landmark sets of the face tried: complete, one landmark missing,
\* an ear cluster missing, every landmark missing
MissingFaceSets ==
  {{}} \cup {{i} : i \in FaceKeys}
       \cup {Range(LeftEarCluster), Range(RightEarCluster), FaceKeys}

\* a complete face array in pixel space whose eye centres are d apart (in
\* 1/10 pixel)
ScaleFace(d) ==
  LET full == SparseFace({}, 1)
  IN [full EXCEPT !.pt[159] = Point(3000, 2500, 0), !.pt[386] = Point(3000 + d, 2500, 0)]

\* a normalized pose array whose shoulders are d apart (in 1/1000)
ScalePose(d) ==
  [len |-> 33, pt |-> (11 :> Point(500 + d, 600, -100) @@ 12 :> Point(500, 600, -100))]

\* eye distances tried: none, small, ordinary, beyond the clamp, very large
EyeDistances == {0, 10, 1000, 2000, 20000}
\* shoulder distances tried
ShoulderDistances == {0, 10, 300, 1000, 3000}

\* a complete pose whose right shoulder lies dz behind (dz < 0: in front of)
\* the left one
TurnedPose(dz) ==
  [len |-> 33, pt |-> (11 :> Point(650, 600, -100) @@ 12 :> Point(350, 600, -100 + dz)
                       @@ 23 :> Point(600, 950, 0) @@ 24 :> Point(400, 950, 0))]

ShoulderDepths == {-300, -30, 0, 30, 300}

ScaleCalls ==
  {[fn |-> "strategy", type |-> t, landmarks |-> ScaleFace(d)] :
     t \in {GLASSES, EARRINGS}, d \in EyeDistances}
  \cup
  {[fn |-> "strategy", type |-> T_SHIRT, landmarks |-> TurnedPose(dz)] :
     dz \in ShoulderDepths}
  \cup
  {[fn |-> "strategy", type |-> NECKLACE, landmarks |-> ScalePose(d)] :
     d \in ShoulderDistances}

\* angles tried, in 1/1000 radian: both sides of the +/-pi boundary, whole
\* turns apart, and values outside one turn
AngleSamples == {-9000, -6284, -3142, -3000, -1571, -1, 0, 1000, 3000, 3142, 4713, 6284}
\* interpolation factors tried, in 1/10
FactorSamples == {0, 4, 5, 10}

LerpCalls ==
  {[fn |-> "lerp", a |-> a, b |-> b, t |-> t] :
     a \in AngleSamples, b \in AngleSamples, t \in FactorSamples}

\* an accessory an earlier frame has placed
EarlierPlacement ==
  [position |-> uvToWorld(500, 480, -100),
   rotation |-> [pitch |-> -800, yaw |-> 0, roll |-> 0],
   scale |-> 1000, visible |-> TRUE]

PlacedEarlier == Placed(SetupMesh(1), EarlierPlacement.position, EarlierPlacement)

UvSamples == {0, 250, 500, 730, 1000, OverflowMagnitude, -OverflowMagnitude, NaN}

\* a strategy unprojects (u, v) and the placement is applied to the accessory
UnprojectCalls ==
  {[fn |-> "unproject", u |-> u, v |-> v, planeZ |-> z, obj |-> o] :
     u \in UvSamples, v \in UvSamples, z \in {-500, -100},
     o \in {SetupMesh(1), PlacedEarlier}}

\* a value the Shirt strategy has left in lastTShirtAlignment
PriorShirtAlignment == TShirtStrategy(DensePose(33, 1), Null).last

\* an occluder that an earlier frame has built
BuiltOccluder ==
  updateFaceOccluderFromFaceLandmarks(
    NewOccluder, convertFaceLandmarksToPixelPoints(DenseFace(FACE_LANDMARK_COUNT, 1)))

StrategyCalls ==
  {[fn |-> "strategy", type |-> t, landmarks |-> SparseFace(m, v)] :
     t \in {GLASSES, EARRINGS}, m \in MissingFaceSets, v \in Variants}
  \cup
  {[fn |-> "strategy", type |-> t, landmarks |-> SparsePose(q, v)] :
     t \in {NECKLACE, T_SHIRT}, q \in SUBSET PoseKeys, v \in Variants}

\* refineFaceLandmarks makes Holistic report 478 face landmarks
OccluderCalls ==
  {[fn |-> "occluder", occluder |-> o, facePoints |-> f] :
     o \in {Null, NewOccluder, BuiltOccluder},
     f \in {Null} \cup {convertFaceLandmarksToPixelPoints(DenseFace(n, 1)) :
                          n \in {1, 200, 467, FACE_LANDMARK_COUNT, 478}}}

PureInit ==
  /\ InitViewer
  /\ lastTShirtAlignment \in {Null, PriorShirtAlignment}
  /\ call \in StrategyCalls \cup ScaleCalls \cup OccluderCalls \cup LerpCalls
              \cup UnprojectCalls
  /\ ret = NoRet

\* AccessoryAlignmentStrategies[type](landmarks, uvToWorld) is called
ApplyStrategy ==
  /\ ret = NoRet
  /\ call.fn = "strategy"
  /\ LET r == AccessoryAlignmentStrategies(call.type, call.landmarks, lastTShirtAlignment)
     IN /\ ret' = [raised |-> r.raised, value |-> r.value]
        /\ lastTShirtAlignment' = r.last
  /\ UNCHANGED << appVars, loadVars, status, currentAccessoryRef, sceneVars, initVars,
                  loopVars, faceOccluderRef, lastResults, lastAlignment, lastOutcome,
                  nFrames, running, afterTeardown, call, shirtPlaced, glassesViewer, agent >>

\* updateFaceOccluderFromFaceLandmarks(facePoints) is called
ApplyOccluder ==
  /\ ret = NoRet
  /\ call.fn = "occluder"
  /\ ret' = [occluder |-> updateFaceOccluderFromFaceLandmarks(call.occluder,
                                                               call.facePoints)]
  /\ UNCHANGED << appVars, loadVars, status, currentAccessoryRef, sceneVars, initVars,
                  loopVars, frameVars, running, afterTeardown, call, shirtPlaced, glassesViewer, agent >>

\* lerpShortestAngle(a, b, t) is called
ApplyLerp ==
  /\ ret = NoRet
  /\ call.fn = "lerp"
  /\ ret' = [angle |-> lerpShortestAngle(call.a, call.b, call.t)]
  /\ UNCHANGED << appVars, loadVars, status, currentAccessoryRef, sceneVars, initVars,
                  loopVars, frameVars, running, afterTeardown, call, shirtPlaced, glassesViewer, agent >>

\* uvToWorld(u, v, planeZ) is called and its result is applied as the position
\* of a visible placement by updateAccessoryAlignment
ApplyUnproject ==
  /\ ret = NoRet
  /\ call.fn = "unproject"
  /\ LET world == uvToWorld(call.u, call.v, call.planeZ)
         alignment == [position |-> Point(world.x, world.y, world.z),
                       rotation |-> [pitch |-> -800, yaw |-> 0, roll |-> 0],
                       scale |-> 1000, visible |-> TRUE]
         r == updateAccessoryAlignment(alignment, << call.obj >>, 1, << >>, TRUE)
     IN ret' = [obj |-> r.objs[1], raised |-> r.raised, render |-> r.render]
  /\ UNCHANGED << appVars, loadVars, status, currentAccessoryRef, sceneVars, initVars,
                  loopVars, frameVars, running, afterTeardown, call, shirtPlaced, glassesViewer, agent >>

PureNext == ApplyStrategy \/ ApplyOccluder \/ ApplyLerp \/ ApplyUnproject

PureSpec == PureInit /\ [][PureNext]_vars

---------------------------------------------------------------------------
(* The viewer as a whole *)

\* the detection results delivered to the viewer
FrameResults ==
  {[faceLandmarks |-> Undefined, poseLandmarks |-> Undefined],
   [faceLandmarks |-> DenseFace(0, 1), poseLandmarks |-> DensePose(0, 1)],
   [faceLandmarks |-> DenseFace(FACE_LANDMARK_COUNT, 1), poseLandmarks |-> Undefined],
   [faceLandmarks |-> Undefined, poseLandmarks |-> DensePose(33, 1)],
   [faceLandmarks |-> DenseFace(FACE_LANDMARK_COUNT, 1), poseLandmarks |-> DensePose(33, 1)],
   [faceLandmarks |-> DenseFace(FACE_LANDMARK_COUNT, 2), poseLandmarks |-> DensePose(33, 2)],
   [faceLandmarks |-> DenseFace(200, 1), poseLandmarks |-> DensePose(23, 1)]}

InitSteps == CameraGranted \/ CameraDenied \/ MetadataLoaded \/ PlaySettled

LoopSteps == RenderLoopTick \/ FallbackLoopTick \/ FallbackSendSettled \/ OnFrame

LoadSteps ==
  \/ \E k \in 1..Len(loads) : ImportResolved(k)
  \/ \E k \in 1..Len(loads) : ImportFailed(k)
  \/ \E k \in 1..Len(loads) : LoadProgress(k)
  \/ \E k \in 1..Len(loads) : LoadSuccess(k)
  \/ \E k \in 1..Len(loads) : LoadError(k)

\* a click, while fewer than max loads have been started
Clicks(max) ==
  \/ \E category \in Range(categories) : Len(loads) < max /\ ClickCategory(category)
  \/ \E accessory \in AccessoryIds : Len(loads) < max /\ ClickAccessory(accessory)

\* a detection result, while fewer than MaxFrames have been delivered
Frames(results) ==
  \E r \in results : nFrames < MaxFrames /\ onHolisticResults(r)

Next ==
  \/ InitSteps
  \/ SceneReadyEffect
  \/ Clicks(MaxLoads)
  \/ LoadSteps
  \/ LoopSteps
  \/ Frames(DetectionResults)
  \/ Teardown

Spec == Init /\ [][Next]_vars

\* mount, initialization, one accessory load, the loops, frames and unmount
LifecycleNext ==
  \/ InitSteps
  \/ SceneReadyEffect
  \/ LoadSteps
  \/ LoopSteps
  \/ Frames(FrameResults)
  \/ Teardown

LifecycleSpec == Init /\ [][LifecycleNext]_vars

\* the viewer after initAll has run to its end without a failure, the
\* camera utility sending the frames
ReadyInit ==
  /\ selectedAccessory = DefaultAccessory
  /\ activeCategory = "Glasses"
  /\ isAccessoryLoaded = FALSE
  /\ isModelLoaded = TRUE
  /\ status = <<"Holistic ready">>
  /\ currentAccessoryRef = DefaultAccessory
  /\ isSceneReady = TRUE
  /\ sceneRef = TRUE
  /\ rendererState = "live"
  /\ sceneObjs = {}
  /\ objs = <<>>
  /\ accessoryRef = 0
  /\ accessoryInstancesRef = <<>>
  /\ faceOccluderRef = NewOccluder
  /\ loads = <<>>
  /\ lastTShirtAlignment = Null
  /\ running = TRUE
  /\ initPc = "done"
  /\ stream = "live"
  /\ srcObject = TRUE
  /\ holisticRef = "open"
  /\ cameraUtilRef = "started"
  /\ fallbackPc = "none"
  /\ renderPc = "scheduled"
  /\ nRenders = 1
  /\ lastResults = NoResults
  /\ lastAlignment = Null
  /\ lastOutcome = "none"
  /\ afterTeardown = {}
  /\ nFrames = 0
  /\ shirtPlaced = FALSE
  /\ glassesViewer = GlassesViewerMounted
  /\ agent = AgentMounted
  /\ call = NoCall
  /\ ret = NoRet

\* selections and loads in the initialized viewer; a load that was started
\* settles
LoadNext ==
  \/ SceneReadyEffect
  \/ Clicks(MaxLoads)
  \/ LoadSteps

LoadFairness ==
  \A k \in 1..(MaxLoads + 1) :
    /\ WF_vars(ImportResolved(k) \/ ImportFailed(k))
    /\ WF_vars(LoadSuccess(k) \/ LoadError(k))

LoadSpec == ReadyInit /\ [][LoadNext]_vars /\ LoadFairness

\* selections, loads and frames
FrameNext ==
  \/ InitSteps
  \/ SceneReadyEffect
  \/ Clicks(MaxLoads)
  \/ LoadSteps
  \/ Frames(FrameResults)

FrameSpec == Init /\ [][FrameNext]_vars

\* selections and frames while the models are still loading
SmoothingNext ==
  \/ InitSteps
  \/ SceneReadyEffect
  \/ Clicks(MaxSelections)
  \/ Frames({r \in FrameResults : IsArray(r.poseLandmarks)})

SmoothingSpec == Init /\ [][SmoothingNext]_vars

\* a complete pose of shoulder width w (in 1/1000 of the frame width) around
\* the centre of the frame, the hips w / 5 + 18 below the shoulders
SizedPose(w) ==
  [len |-> 33,
   pt |-> (11 :> Point(500 + w \div 2, 600, -100) @@ 12 :> Point(500 - w \div 2, 600, -100)
           @@ 23 :> Point(500 + w \div 2, 618 + w \div 5, 0)
           @@ 24 :> Point(500 - w \div 2, 618 + w \div 5, 0))]

\* results with a person far away, at an ordinary distance and so near that
\* the shoulders lie outside the frame
SizedResults ==
  {[faceLandmarks |-> DenseFace(FACE_LANDMARK_COUNT, 1), poseLandmarks |-> SizedPose(w)] :
     w \in {10, 300, 1500}}
  \cup {[faceLandmarks |-> Undefined, poseLandmarks |-> Undefined]}

\* selections, loads and frames with persons of several sizes in the
\* initialized viewer
ScaleNext ==
  \/ SceneReadyEffect
  \/ Clicks(MaxLoads)
  \/ LoadSteps
  \/ Frames(SizedResults)

ScaleSpec == ReadyInit /\ [][ScaleNext]_vars

\* category and accessory clicks in the initialized viewer, the loads they
\* start still pending
PickerNext ==
  \/ SceneReadyEffect
  \/ Clicks(MaxSelections + 2)

PickerSpec == ReadyInit /\ [][PickerNext]_vars

\* the glasses-only viewer: initialization, the detection loop and unmount
GlassesNext ==
  \/ GlassesCameraGranted
  \/ GlassesCameraDenied
  \/ GlassesMetadataLoaded
  \/ GlassesImportResolved
  \/ GlassesImportFailed
  \/ GlassesLoadSuccess
  \/ GlassesLoadError
  \/ DetectorLoaded
  \/ DetectorFailed
  \/ GlassesPlaySettled
  \/ (glassesViewer.nTurns < MaxTurns /\ DetectLoopTick)
  \/ EstimateSettled
  \/ GlassesTeardown

GlassesSpec == Init /\ [][GlassesNext]_vars

---------------------------------------------------------------------------
(* Properties of the strategies and of the occluder builder *)

\* the landmark array lacks a landmark the strategy of the type requires;
\* an ear cluster is lacking when none of its landmarks is present
RequiredMissing(type, landmarks) ==
  LET Missing(i) == ~Truthy(At(landmarks, i))
  IN CASE type = GLASSES -> \E i \in {159, 386, 1} : Missing(i)
       [] type = EARRINGS -> \/ \E i \in {159, 386} : Missing(i)
                             \/ \A i \in Range(LeftEarCluster) : Missing(i)
                             \/ \A i \in Range(RightEarCluster) : Missing(i)
       [] type = NECKLACE -> \E i \in {11, 12} : Missing(i)
       [] type = T_SHIRT -> \E i \in {11, 12, 23, 24} : Missing(i)

\* C1: every strategy, called with a landmark array, returns without raising,
\* and returns a placement with visible = false when the array lacks a landmark
\* the strategy requires (Glasses 159, 386, 1; Earrings 159, 386 and each ear
\* cluster; Necklace 11, 12; Shirt 11, 12, 23, 24)
C1_MissingLandmarkNotVisible ==
  (call.fn = "strategy" /\ ret # NoRet) =>
     /\ ~ret.raised
     /\ RequiredMissing(call.type, call.landmarks) =>
          ("visible" \in DOMAIN ret.value /\ ~ret.value.visible)

\* the Necklace strategy has been called without the right shoulder, and the
\* Earrings strategy case of a missing ear cluster is covered by the inputs
C1_Witness ==
  /\ call.fn = "strategy" /\ ret # NoRet
  /\ call.type = NECKLACE
  /\ Truthy(At(call.landmarks, 11)) /\ ~Truthy(At(call.landmarks, 12))
  /\ ret.value = NotVisible
  /\ \E c \in StrategyCalls :
       /\ c.type = EARRINGS
       /\ \A i \in Range(LeftEarCluster) : ~Truthy(At(c.landmarks, i))
       /\ \A i \in {159, 386} : Truthy(At(c.landmarks, i))

\* C8: the builder leaves the occluder visible exactly when it is given at
\* least 468 face landmarks; with fewer, with no array or with no occluder it
\* builds nothing; with 468 or more it writes three coordinates per landmark
\* and the triangulation table, whose length is a multiple of 3
C8_OccluderVisibleIffEnoughLandmarks ==
  (call.fn = "occluder" /\ ret # NoRet) =>
     LET before == call.occluder
         after == ret.occluder
         enough == /\ Truthy(before)
                   /\ Truthy(call.facePoints)
                   /\ call.facePoints.len >= FACE_LANDMARK_COUNT
     IN IF enough
        THEN /\ after.visible
             /\ after.vertices = 3 * call.facePoints.len
             /\ after.indices = TRIANGULATION_INDEX_COUNT
             /\ after.indices % 3 = 0
        ELSE IF Truthy(before)
             THEN /\ ~after.visible
                  /\ after.vertices = before.vertices
                  /\ after.indices = before.indices
             ELSE after = before

\* the builder has been given exactly 468 landmarks and an occluder
C8_Witness ==
  /\ call.fn = "occluder" /\ ret # NoRet
  /\ Truthy(call.occluder) /\ Truthy(call.facePoints)
  /\ call.facePoints.len = FACE_LANDMARK_COUNT
  /\ ret.occluder.visible
  /\ ret.occluder.vertices = 3 * FACE_LANDMARK_COUNT

\* C13: the placement a strategy returns is determined by its landmark
\* input alone: it is the same whatever the earlier strategy calls have left
\* behind
C13_StrategiesArePure ==
  (call.fn = "strategy" /\ ret # NoRet) =>
     \A last \in {Null, PriorShirtAlignment} :
        /\ AccessoryAlignmentStrategies(call.type, call.landmarks, last).value = ret.value
        /\ AccessoryAlignmentStrategies(call.type, call.landmarks, last).raised = ret.raised

\* the declared clamp range of the scale of a strategy, in 1/1000
ClampRange(type) ==
  CASE type = GLASSES -> [lo |-> 500, hi |-> 4000]
    [] type = EARRINGS -> [lo |-> 300, hi |-> 3000]
    [] type = NECKLACE -> [lo |-> 100, hi |-> 4000]

\* the characteristic distance of the input: between the eye centres (in
\* 1/10 pixel) or between the shoulders (in 1/1000)
CharacteristicDistance(type, landmarks) ==
  LET a == IF type = NECKLACE THEN At(landmarks, 11) ELSE At(landmarks, 159)
      b == IF type = NECKLACE THEN At(landmarks, 12) ELSE At(landmarks, 386)
  IN Sqrt((b.x - a.x) * (b.x - a.x) + (b.y - a.y) * (b.y - a.y)
          + (IF type = GLASSES THEN (b.z - a.z) * (b.z - a.z) ELSE 0))

\* C14: a visible placement of Glasses, Earrings or Necklace has its scale
\* inside the clamp range of the strategy; the scale is the lower bound for
\* a distance of 0 and the upper bound for a distance of a frame width or
\* more
C14_ScaleWithinClampRange ==
  (/\ call.fn = "strategy" /\ ret # NoRet
   /\ call.type \in {GLASSES, EARRINGS, NECKLACE}
   /\ ~ret.raised /\ ret.value.visible) =>
     LET range == ClampRange(call.type)
         d == CharacteristicDistance(call.type, call.landmarks)
         width == IF call.type = NECKLACE THEN Milli ELSE VIDEO_WIDTH * PxUnit
     IN /\ range.lo <= ret.value.scale /\ ret.value.scale <= range.hi
        /\ d = 0 => ret.value.scale = range.lo
        /\ d >= width => ret.value.scale = range.hi

\* the Necklace strategy was given shoulders three frame widths apart and
\* returned the upper bound; the Glasses strategy case of distance 0 is
\* reached the same way
C14_Witness ==
  /\ call.fn = "strategy" /\ ret # NoRet
  /\ call.type = NECKLACE
  /\ ~ret.raised /\ ret.value.visible
  /\ CharacteristicDistance(NECKLACE, call.landmarks) = 3000
  /\ ret.value.scale = 4000

\* C15: lerpShortestAngle(a, b, t) is a + t * d for a step d that is
\* congruent to b - a modulo 2 pi and at most pi in size; from 3.0 to -3.0
\* at t = 0.5 the result lies outside (-1, 1)
C15_ShortestArcInterpolation ==
  (call.fn = "lerp" /\ ret # NoRet) =>
     /\ \E d \in -PI..PI :
          /\ (d - (call.b - call.a)) % (2 * PI) = 0
          /\ ret.angle = call.a + (d * call.t) \div SmoothUnit
     /\ (call.a = 3000 /\ call.b = -3000 /\ call.t = 5) =>
          (ret.angle <= -Milli \/ ret.angle >= Milli)

\* the interpolation from 3.0 to -3.0 at t = 0.5 has been computed and
\* ends next to pi
C15_Witness ==
  /\ call.fn = "lerp" /\ ret # NoRet
  /\ call.a = 3000 /\ call.b = -3000 /\ call.t = 5
  /\ ret.angle = 3142

\* C18: on a pose array the Necklace strategy returns a visible placement
\* exactly when both shoulders are present, and the Shirt strategy exactly
\* when both shoulders and both hips are present; neither raises
C18_BodyStrategiesUseOwnLandmarks ==
  (/\ call.fn = "strategy" /\ ret # NoRet
   /\ call.type \in {NECKLACE, T_SHIRT}
   /\ IsArray(call.landmarks)) =>
     LET required == IF call.type = NECKLACE THEN {11, 12} ELSE {11, 12, 23, 24}
     IN /\ ~ret.raised
        /\ ret.value.visible <=> \A i \in required : Truthy(At(call.landmarks, i))

\* the Necklace strategy was given shoulders without hips and returned a
\* visible placement
C18_Witness ==
  /\ call.fn = "strategy" /\ ret # NoRet
  /\ call.type = NECKLACE
  /\ DOMAIN call.landmarks.pt = {11, 12}
  /\ call.landmarks.len = 33
  /\ ~ret.raised /\ ret.value.visible

\* C19: for a complete face whose eye centres are level (same height and
\* depth, 386 not left of 159) and D apart, the Glasses strategy returns a
\* visible placement with roll 0 and scale clamp(D / 720 * 20, 0.5, 4.0), up
\* to the rounding of the fixed-point division
C19_GlassesLevelHead ==
  (/\ call.fn = "strategy" /\ ret # NoRet
   /\ call.type = GLASSES
   /\ IsArray(call.landmarks)
   /\ \A i \in {159, 386, 1} : Truthy(At(call.landmarks, i))
   /\ At(call.landmarks, 159).y = At(call.landmarks, 386).y
   /\ At(call.landmarks, 159).z = At(call.landmarks, 386).z
   /\ At(call.landmarks, 159).x <= At(call.landmarks, 386).x) =>
     LET D == At(call.landmarks, 386).x - At(call.landmarks, 159).x
         expected == Max(500, Min(4000, (D * 20 * Milli) \div (VIDEO_WIDTH * PxUnit)))
     IN /\ ~ret.raised
        /\ ret.value.visible
        /\ ret.value.rotation.roll = 0
        /\ Abs(ret.value.scale - expected) <= 20

\* the Glasses strategy was given a level face with the eye centres 100
\* pixels apart and returned a scale strictly inside the clamp range
C19_Witness ==
  /\ call.fn = "strategy" /\ ret # NoRet
  /\ call.type = GLASSES
  /\ call.landmarks = ScaleFace(1000)
  /\ ~ret.raised /\ ret.value.visible
  /\ ret.value.rotation.roll = 0
  /\ ret.value.scale > 500 /\ ret.value.scale < 4000

---------------------------------------------------------------------------
(* Properties of the viewer *)

\* C2: the accessory objects in the scene all belong to the selected
\* accessory, and they are at most one single model, or no or two earring
\* instances, whatever the order of selections and load completions
C2_SingleActiveAccessory ==
  /\ \A id \in sceneObjs : loads[LoadOf(id)].accessory = selectedAccessory
  /\ IF TypeOf(selectedAccessory) = EARRINGS
     THEN Cardinality(sceneObjs) \in {0, 2}
     ELSE Cardinality(sceneObjs) <= 1

\* C3: once the viewer is torn down and initAll has come to its end, no
\* stream track is live, the camera utility is not running and the detector
\* is not open
C3_TeardownReleasesCameraAndDetector ==
  (~running /\ initPc \in {"done", "failed"}) =>
     /\ stream # "live"
     /\ cameraUtilRef # "started"
     /\ holisticRef # "open"

\* C4: after teardown renderLoop and fallbackLoop perform no render and no
\* detector send, and a detection result delivered after teardown changes no
\* scene object, not the occluder and not the status
C4_NothingRunsAfterTeardown ==
  /\ [](~running => afterTeardown = {})
  /\ [][(~running /\ nFrames' # nFrames) =>
          UNCHANGED << sceneObjs, objs, accessoryRef, accessoryInstancesRef,
                       faceOccluderRef, status >>]_vars

\* the viewer was torn down with both loops started; a result arrived
\* afterwards, and both loops have ended
C4_Witness ==
  /\ ~running
  /\ lastOutcome = "ignored"
  /\ renderPc = "cancelled"
  /\ fallbackPc = "ended"
  /\ afterTeardown = {}

\* results.poseLandmarks holds the four landmarks of the Shirt strategy
ShirtCandidateOf(results) ==
  TShirtCandidate(At(results.poseLandmarks, 11), At(results.poseLandmarks, 12),
                  At(results.poseLandmarks, 23), At(results.poseLandmarks, 24))

\* C5: the first Shirt placement computed after the selected accessory has
\* changed is the raw candidate of its frame, not a blend with a placement
\* remembered from before the change
C5_FirstShirtPlacementIsRaw ==
  [][(~shirtPlaced /\ shirtPlaced') => lastAlignment' = ShirtCandidateOf(lastResults')]_vars

\* the alignment of the last frame is usable: not null and visible
Usable(alignment) == Truthy(alignment) /\ alignment.visible

\* C6: a frame without usable placement leaves every accessory object of
\* the scene invisible, and a frame with a usable placement leaves every
\* accessory object of the scene visible
C6_HiddenForTheFrameOnly ==
  [][(nFrames' # nFrames /\ lastOutcome' = "returned") =>
        \A id \in sceneObjs' : objs'[id].visible = Usable(lastAlignment')]_vars

\* C7: onHolisticResults never ends with an escaping exception
C7_FrameProcessingNeverThrows == lastOutcome # "threw"

\* the result holds a non-empty array of face landmarks
HasFace(results) == IsArray(results.faceLandmarks) /\ results.faceLandmarks.len > 0

\* C9: after a processed result without face landmarks the occluder is not
\* visible
C9_OccluderNotCarriedOver ==
  (lastResults # NoResults /\ ~HasFace(lastResults)) =>
     ~(Truthy(faceOccluderRef) /\ faceOccluderRef.visible)

\* the k-th load fails in this step
FailsNow(k) == loads[k].stage # "failed" /\ loads'[k].stage = "failed"

\* C10: a load that fails adds its placeholder cube (two for earrings) at
\* the default placement and sets the loaded flag; and whenever a load has
\* been started and the flag is false, the flag becomes true
C10_LoadFailureFallsBack ==
  /\ [][\A k \in 1..Len(loads) :
          FailsNow(k) =>
            /\ isAccessoryLoaded'
            /\ IF TypeOf(loads[k].accessory) = EARRINGS
               THEN /\ {ObjId(k, 1), ObjId(k, 2)} \subseteq sceneObjs'
                    /\ \A i \in {1, 2} :
                         /\ objs'[ObjId(k, i)].kind = "cube"
                         /\ objs'[ObjId(k, i)].visible
                         /\ objs'[ObjId(k, i)].position =
                              Vec(IF i = 1 THEN -200 ELSE 200, 0, -300)
               ELSE /\ ObjId(k, 1) \in sceneObjs'
                    /\ objs'[ObjId(k, 1)].kind = "cube"
                    /\ objs'[ObjId(k, 1)].visible
                    /\ objs'[ObjId(k, 1)].position = Vec(0, 0, -300)]_vars
  /\ (Len(loads) > 0 /\ ~isAccessoryLoaded) ~> isAccessoryLoaded

\* an earring load has failed: its two cubes are in the scene and the flag
\* is true
C10_Witness ==
  \E k \in 1..Len(loads) :
    /\ loads[k].stage = "failed"
    /\ TypeOf(loads[k].accessory) = EARRINGS
    /\ {ObjId(k, 1), ObjId(k, 2)} \subseteq sceneObjs
    /\ isAccessoryLoaded

\* the landmark array the strategy of the type consumes is under-sized:
\* fewer than 468 face landmarks, or fewer than 33 pose landmarks
UnderSized(results, type) ==
  IF type \in {GLASSES, EARRINGS}
  THEN IsArray(results.faceLandmarks) /\ results.faceLandmarks.len < FACE_LANDMARK_COUNT
  ELSE IsArray(results.poseLandmarks) /\ results.poseLandmarks.len < 33

\* C12: a detection result whose landmark array is under-sized for the
\* strategy of the selected accessory yields no visible placement, and no
\* accessory object is visible after it
C12_UnderSizedResultIsNoDetection ==
  [][(/\ nFrames' # nFrames
      /\ lastOutcome' # "ignored"
      /\ UnderSized(lastResults', TypeOf(currentAccessoryRef))) =>
        /\ ~Usable(lastAlignment')
        /\ \A id \in sceneObjs' : ~objs'[id].visible]_vars

\* C16: a Shirt call whose candidate equals the remembered placement
\* returns that placement and leaves the remembered placement as it was
C16_SmootherIdempotent ==
  [][(/\ call.fn = "strategy" /\ call.type = T_SHIRT
      /\ ret = NoRet /\ ret' # NoRet
      /\ Truthy(lastTShirtAlignment)
      /\ ~ret'.raised /\ ret'.value.visible
      /\ ShirtCandidateOf([poseLandmarks |-> call.landmarks]) = lastTShirtAlignment) =>
        /\ ret'.value = lastTShirtAlignment
        /\ lastTShirtAlignment' = lastTShirtAlignment]_vars

\* the Shirt strategy has been called with the pose whose candidate is the
\* remembered placement
C16_Witness ==
  /\ call.fn = "strategy" /\ call.type = T_SHIRT
  /\ ret # NoRet /\ ~ret.raised /\ ret.value.visible
  /\ ShirtCandidateOf([poseLandmarks |-> call.landmarks]) = PriorShirtAlignment
  /\ lastTShirtAlignment = PriorShirtAlignment
  /\ ret.value = PriorShirtAlignment

\* C17: teardown disposes the geometry and material of the occlusion mesh
\* and of every accessory mesh that is in the scene or held by a ref
C17_TeardownDisposesMeshes ==
  [][(running /\ ~running') =>
        /\ Truthy(faceOccluderRef) => faceOccluderRef'.disposed
        /\ \A id \in DOMAIN objs : id \in DOMAIN objs' /\ objs'[id].disposed]_vars

\* C20: when unprojection is degenerate (the ray direction has z-component
\* zero) or yields a non-finite value, the update is skipped and the accessory
\* keeps its last placement; no NaN coordinate is written to a scene object.
C20_DegenerateUnprojectionSkipped ==
  (call.fn = "unproject" /\ ret # NoRet) =>
    /\ (NonFinite(call.u) \/ NonFinite(call.v)) => ret.obj = call.obj
    /\ NaN \notin {ret.obj.position.x, ret.obj.position.y, ret.obj.position.z}

\* the screen point (u, v) at which the camera of initThreeJS sees the world
\* point p: the perspective division by the distance in front of the camera
ProjectToUv(p) ==
  LET depth == CameraPosition.z - p.z
      ndcX == (p.x * Milli * Milli)
                \div (depth * ((TanHalfFov * VIDEO_WIDTH) \div VIDEO_HEIGHT))
      ndcY == (p.y * Milli * Milli) \div (depth * TanHalfFov)
  IN [u |-> (ndcX + Milli) \div 2, v |-> (Milli - ndcY) \div 2]

\* C21: for (u, v) in [0,1] x [0,1] and a plane depth, the point returned by
\* uvToWorld(u, v, depth) lies on the plane z = depth and projects back
\* through the camera to (u, v), within the rounding of the arithmetic.
C21_UnprojectionRoundTrip ==
  (/\ call.fn = "unproject" /\ ret # NoRet
   /\ call.u \in 0..Milli /\ call.v \in 0..Milli) =>
    /\ ret.obj.position.z = call.planeZ
    /\ Abs(ProjectToUv(ret.obj.position).u - call.u) <= 3
    /\ Abs(ProjectToUv(ret.obj.position).v - call.v) <= 3

C21_Witness ==
  /\ call.fn = "unproject" /\ ret # NoRet
  /\ call.u = 250 /\ call.v = 730 /\ call.planeZ = -500
  /\ ret.obj.position.z = -500
  /\ ret.obj.position.x < 0 /\ ret.obj.position.y < 0

\* x lies between a and b, ends included
Between(x, a, b) == Min(a, b) <= x /\ x <= Max(a, b)

\* a Shirt call returns a visible placement in this step
ShirtCallReturns ==
  /\ call.fn = "strategy" /\ call.type = T_SHIRT
  /\ ret = NoRet /\ ret' # NoRet
  /\ ~ret'.raised /\ ret'.value.visible

\* position and scale of the returned placement are prev + (next - prev) * 0.3,
\* the yaw is prev.yaw + 0.4 * d for the shortest step d towards next.yaw,
\* and the returned placement is remembered
SmoothedFrom(prev, next, out, remembered) ==
  /\ out.position.x = prev.position.x
                        + ((next.position.x - prev.position.x) * 3) \div SmoothUnit
  /\ out.position.y = prev.position.y
                        + ((next.position.y - prev.position.y) * 3) \div SmoothUnit
  /\ out.position.z = prev.position.z
                        + ((next.position.z - prev.position.z) * 3) \div SmoothUnit
  /\ out.scale = prev.scale + ((next.scale - prev.scale) * 3) \div SmoothUnit
  /\ \E d \in -PI..PI :
       /\ (d - (next.rotation.yaw - prev.rotation.yaw)) % (2 * PI) = 0
       /\ out.rotation.yaw = prev.rotation.yaw + (d * 4) \div SmoothUnit
  /\ Between(out.position.x, prev.position.x, next.position.x)
  /\ Between(out.position.y, prev.position.y, next.position.y)
  /\ Between(out.position.z, prev.position.z, next.position.z)
  /\ Between(out.scale, prev.scale, next.scale)
  /\ remembered = out

\* C22 as stated: without a remembered placement the candidate is returned
\* unchanged; otherwise position and scale are interpolated with factor 0.3
\* and the yaw with factor 0.4, every smoothed component, the yaw included,
\* lies between the previous and the new value, and the returned placement
\* is remembered
C22_SmoothedBetweenPrevAndNext ==
  [][ShirtCallReturns =>
       LET next == ShirtCandidateOf([poseLandmarks |-> call.landmarks])
       IN IF Truthy(lastTShirtAlignment)
          THEN /\ SmoothedFrom(lastTShirtAlignment, next, ret'.value,
                               lastTShirtAlignment')
               /\ Between(ret'.value.rotation.yaw, lastTShirtAlignment.rotation.yaw,
                          next.rotation.yaw)
          ELSE ret'.value = next /\ lastTShirtAlignment' = next]_vars

\* C22, amended: as above, but the yaw moves along the shortest arc, at most
\* 0.4 * pi away from the previous yaw, and may leave the interval between
\* the previous and the new yaw when the arc crosses the 0 / 2 pi boundary
C22_SmoothedAlongShortestArc ==
  [][ShirtCallReturns =>
       LET next == ShirtCandidateOf([poseLandmarks |-> call.landmarks])
       IN IF Truthy(lastTShirtAlignment)
          THEN /\ SmoothedFrom(lastTShirtAlignment, next, ret'.value,
                               lastTShirtAlignment')
               /\ Abs(ret'.value.rotation.yaw - lastTShirtAlignment.rotation.yaw)
                    <= (4 * PI) \div SmoothUnit + 1
          ELSE ret'.value = next /\ lastTShirtAlignment' = next]_vars

\* a Shirt call has blended a remembered placement of yaw 2 pi with a
\* candidate of yaw just above 0: the returned yaw lies beyond 2 pi
C22_Witness ==
  /\ call.fn = "strategy" /\ call.type = T_SHIRT
  /\ call.landmarks = TurnedPose(-30)
  /\ ret # NoRet /\ ~ret.raised /\ ret.value.visible
  /\ ret.value.rotation.yaw > 2 * PI
  /\ ret.value.scale = PriorShirtAlignment.scale
  /\ lastTShirtAlignment = ret.value

\* C23: the step lerpShortestAngle interpolates along lies in (-pi, pi]; at
\* factor 1 the step is the result minus a, so it is above -pi and at most
\* pi, and a difference of exactly pi is travelled as +pi
C23_StepInHalfOpenInterval ==
  (call.fn = "lerp" /\ ret # NoRet /\ call.t = SmoothUnit) =>
     /\ -PI < ret.angle - call.a
     /\ ret.angle - call.a <= PI

\* C24: a frame of the render loop leaves every accessory object (position,
\* rotation, scale, visibility), the scene, the occluder and the smoothing
\* state as they were
C24_RenderFramesKeepPlacements ==
  [][(nRenders' # nRenders /\ initPc' = initPc) =>
       /\ objs' = objs
       /\ sceneObjs' = sceneObjs
       /\ faceOccluderRef' = faceOccluderRef
       /\ lastTShirtAlignment' = lastTShirtAlignment
       /\ lastAlignment' = lastAlignment]_vars

\* several frames have been drawn and a detection result has placed a
\* loaded model, which is visible
C24_Witness ==
  /\ running
  /\ nRenders >= 3
  /\ lastOutcome = "returned" /\ Usable(lastAlignment)
  /\ \E id \in sceneObjs : objs[id].kind = "model" /\ objs[id].visible

\* the k-th load comes to its end in this step
CompletesNow(k) ==
  loads[k].stage \notin {"loaded", "failed"} /\ loads'[k].stage \in {"loaded", "failed"}

\* C26: the loaded flag is true only if an object of the selected accessory
\* is in the scene, and the completion of a load started for an earlier
\* selection does not set the flag while the latest load is pending
C26_LoadedFlagTracksSelection ==
  /\ [](isAccessoryLoaded =>
          \E id \in sceneObjs : loads[LoadOf(id)].accessory = selectedAccessory)
  /\ [][\A k \in 1..Len(loads) :
          (/\ CompletesNow(k)
           /\ k < Len(loads)
           /\ loads'[Len(loads)].stage \notin {"loaded", "failed"}) =>
             ~isAccessoryLoaded']_vars

\* C29: the scale of every accessory object lies within [0.1, 4.0] after
\* any sequence of selections, loads and detection results, for every
\* accessory type
C29_AppliedScaleBounded ==
  \A id \in DOMAIN objs : 100 <= objs[id].scale /\ objs[id].scale <= 4000

\* the Shirt strategy has returned a scale above 4.0 and the shirt model
\* has been placed with the scale 4.0
C29_Witness ==
  /\ TypeOf(currentAccessoryRef) = T_SHIRT
  /\ Usable(lastAlignment) /\ lastAlignment.scale > 4000
  /\ accessoryRef \in sceneObjs
  /\ objs[accessoryRef].kind = "model"
  /\ objs[accessoryRef].visible
  /\ objs[accessoryRef].scale = 4000

\* C30: the selected accessory belongs to the active category; a step that
\* changes the active category selects the first accessory of the new
\* category, and a step that changes the selection within the picker leaves
\* the selection in the active category
C30_SelectionInActiveCategory ==
  /\ [](ACCESSORIES[selectedAccessory].category = activeCategory)
  /\ [][activeCategory' # activeCategory =>
          selectedAccessory' = accessoriesByCategory(activeCategory')[1]]_vars
  /\ [][(selectedAccessory' # selectedAccessory /\ activeCategory' = activeCategory) =>
          selectedAccessory' \in Range(accessoriesByCategory(activeCategory))]_vars

\* an accessory of the Glasses category other than the default one has been
\* clicked, then the T-Shirts category
C30_Witness ==
  /\ activeCategory = "T-Shirts"
  /\ selectedAccessory = accessoriesByCategory("T-Shirts")[1]
  /\ Len(loads) = 3
  /\ loads[1].accessory = DefaultAccessory
  /\ ACCESSORIES[loads[2].accessory].category = "Glasses"

---------------------------------------------------------------------------
(* Properties of the glasses-only viewer *)

\* getUserMedia was rejected
CameraInitFailed == glassesViewer.initPc = "failed" /\ glassesViewer.stream = "none"

\* loadFaceMeshModel ended without a detector
DetectorInitFailed ==
  /\ ~glassesViewer.detectorRef
  /\ glassesViewer.isGlassesLoaded
  /\ glassesViewer.initPc \in {"play", "done", "failed"}

\* C11: after a camera or detector initialization failure the status
\* reports it, the frame loop keeps running with an accessory in the scene,
\* and every turn of the loop applies the simulated placement
C11_InitFailureFallsBackToSimulation ==
  /\ []((glassesViewer.isRunning /\ (CameraInitFailed \/ DetectorInitFailed)) =>
          /\ glassesViewer.status \in {<<"Initialization failed">>,
                                       <<"Model loading failed, using simulation">>,
                                       <<"Simulation mode (model not loaded)">>}
          /\ glassesViewer.loopPc \in {"scheduled", "estimating"}
          /\ Truthy(glassesViewer.glassesRef))
  /\ [][(/\ glassesViewer.isRunning
          /\ (CameraInitFailed \/ DetectorInitFailed)
          /\ glassesViewer'.nTurns # glassesViewer.nTurns) =>
            /\ glassesViewer'.source = "simulated"
            /\ glassesViewer'.alignment \in {getSimulatedAlignment(t) : t \in SimulationTimes}
            /\ glassesViewer'.glassesRef.rotation =
                  Vec(glassesViewer'.alignment.rotation.pitch,
                      glassesViewer'.alignment.rotation.yaw,
                      glassesViewer'.alignment.rotation.roll)]_vars

\* C25: once the cleanup of the glasses-only viewer has run, detectLoop
\* performs no render call and requests no animation frame, also when the
\* cleanup runs while estimateFaces is pending
C25_DetectLoopStopsAtTeardown ==
  ~glassesViewer.isRunning => glassesViewer.afterTeardown = {}

---------------------------------------------------------------------------
(* Properties of the voice agent *)

\* C27: at most SCREENSHOT_COUNT screenshots are stored in screenshotsRef,
\* whatever the timing of the captures, the interval and the stop
C27_AtMostThreeScreenshots == agent.screenshots <= SCREENSHOT_COUNT

\* the states the agent status settles in
SettledStatuses == {<<"Idle">>, <<"Error">>, <<"Nothing to process.">>}

\* C28: after a stop the agent status does not stay transient: from some
\* point on, while no recording runs, it is Idle, Error or Nothing to
\* process
C28_StatusSettles ==
  <>[]((Len(agent.requests) > 0 /\ ~agent.isRecording) =>
          agent.agentStatus \in SettledStatuses)

====
